---- MODULE Spec2Model ----
(***************************************************************************)
(* dny.li URL shortener (Cloudflare Worker): request router, admin CRUD    *)
(* handlers, session/bearer authentication, KV record store and the       *)
(* fixed-window rate limiter.                                              *)
(*                                                                         *)
(* Strings the code inspects character by character (paths, slugs) are    *)
(* sequences of one-character strings.  Destination URLs are records of    *)
(* the lexical parts of their text.  Time is Date.now() in milliseconds.   *)
(***************************************************************************)
EXTENDS Integers, Sequences, FiniteSets, TLC

\* ---------------------------------------------------------------- bounds
\* number of requests the worker accepts in one behaviour
MaxRequests == 2
\* number of requests in one behaviour of the rate-limiter specification
MaxCalls == 4
\* number of one-minute steps the clock can take after each base instant
MaxTicks == 1
\* length up to which every text over SlugAlphabet is tried as a slug
MaxSlugLen == 4

\* ------------------------------------------------------ program constants
REDIRECT_LIMIT == 60
REDIRECT_WINDOW_MS == 60000
ADMIN_LIMIT == 50
ADMIN_WINDOW_MS == 15 * 60 * 1000
sevenDaysMs == 7 * 24 * 60 * 60 * 1000
maxAttempts == 10

\* ------------------------------------------------- character-string helpers
StartsWith(s, pre) ==
  /\ Len(s) >= Len(pre)
  /\ SubSeq(s, 1, Len(pre)) = pre

EndsWith(s, suf) ==
  /\ Len(s) >= Len(suf)
  /\ SubSeq(s, Len(s) - Len(suf) + 1, Len(s)) = suf

Includes(s, sub) ==
  \E i \in 1..(Len(s) - Len(sub) + 1) : SubSeq(s, i, i + Len(sub) - 1) = sub

\* s.substring(n): the text after the first n characters
Substring(s, n) == SubSeq(s, n + 1, Len(s))

UpperToLower ==
  [c \in {"A", "B", "C", "H", "T", "P", "S", "E", "X", "M", "L", "O"} |->
     CASE c = "A" -> "a" [] c = "B" -> "b" [] c = "C" -> "c" [] c = "H" -> "h"
       [] c = "T" -> "t" [] c = "P" -> "p" [] c = "S" -> "s" [] c = "E" -> "e"
       [] c = "X" -> "x" [] c = "M" -> "m" [] c = "L" -> "l" [] c = "O" -> "o"]

LowerChar(c) == IF c \in DOMAIN UpperToLower THEN UpperToLower[c] ELSE c

\* String.prototype.toLowerCase on a character sequence
toLowerCase(s) == [i \in 1..Len(s) |-> LowerChar(s[i])]

\* the last element of pathname.split('/')
LastSegment(path) ==
  LET slashes == {i \in 1..Len(path) : path[i] = "/"}
      last == IF slashes = {} THEN 0
              ELSE CHOOSE i \in slashes : \A j \in slashes : j <= i
  IN Substring(path, last)

\* ------------------------------------------------------------ route paths
P_health == <<"/", "h", "e", "a", "l", "t", "h">>
P_status == <<"/", "s", "t", "a", "t", "u", "s">>
P_all_json == <<"/", "a", "l", "l", ".", "j", "s", "o", "n">>
P_admin == <<"/", "a", "d", "m", "i", "n">>
P_api == <<"/", "a", "p", "i">>
P_root == <<"/">>
P_admin_login == <<"/", "a", "d", "m", "i", "n", "/", "l", "o", "g", "i", "n">>
P_admin_logout == <<"/", "a", "d", "m", "i", "n", "/", "l", "o", "g", "o", "u", "t">>
P_admin_urls == <<"/", "a", "d", "m", "i", "n", "/", "u", "r", "l", "s">>
P_admin_urls_ == <<"/", "a", "d", "m", "i", "n", "/", "u", "r", "l", "s", "/">>
P_admin_edit_ == <<"/", "a", "d", "m", "i", "n", "/", "e", "d", "i", "t", "/">>
P_admin_create == <<"/", "a", "d", "m", "i", "n", "/", "c", "r", "e", "a", "t", "e">>
P_admin_update_ == <<"/", "a", "d", "m", "i", "n", "/", "u", "p", "d", "a", "t", "e", "/">>
P_admin_delete_ == <<"/", "a", "d", "m", "i", "n", "/", "d", "e", "l", "e", "t", "e", "/">>

\* ------------------------------------------------------------ Slug Engine
SlugChars ==
  {"a", "b", "c", "d", "e", "f", "g", "h", "i", "j", "k", "l", "m", "n", "o",
   "p", "q", "r", "s", "t", "u", "v", "w", "x", "y", "z",
   "0", "1", "2", "3", "4", "5", "6", "7", "8", "9", "-"}

\* /^[a-z0-9-]{3,50}$/
slugRegex(slug) ==
  /\ Len(slug) >= 3
  /\ Len(slug) <= 50
  /\ \A i \in 1..Len(slug) : slug[i] \in SlugChars

reserved ==
  { <<"a", "d", "m", "i", "n">>, <<"a", "p", "i">>,
    <<"h", "e", "a", "l", "t", "h">>, <<"s", "t", "a", "t", "u", "s">>,
    <<"b", "a", "c", "k", "u", "p">> }

\* isValidCustomSlug without the test against the reserved words
isValidCustomSlug_NoReserved(slug) ==
  IF StartsWith(slug, <<"-">>) \/ EndsWith(slug, <<"-">>) THEN FALSE
  ELSE IF Includes(slug, <<"-", "-">>) THEN FALSE
  ELSE slugRegex(slug)

isValidCustomSlug(slug) ==
  IF StartsWith(slug, <<"-">>) \/ EndsWith(slug, <<"-">>) THEN FALSE
  ELSE IF Includes(slug, <<"-", "-">>) THEN FALSE
  ELSE IF toLowerCase(slug) \in reserved THEN FALSE
  ELSE slugRegex(slug)

\* ------------------------------------------------- URL Safety Validator
\* The text of a destination URL, split into its lexical parts:
\*   [ws] scheme ":" ["//"] host [":" port] path
\* scheme = "" means the text has no "scheme:" prefix; host and path are
\* sequences of tokens; for a scheme that is not followed by "//" the host
\* holds the single token after the colon (javascript:alert(1)).
NoURL ==
  [ws |-> FALSE, scheme |-> "", slashes |-> FALSE, host |-> <<>>,
   port |-> "", path |-> <<>>]

TokenLower ==
  [t \in {"HTTP", "HTTPS", "EXAMPLE", "LOCALHOST", "FC00", "FE80"} |->
     CASE t = "HTTP" -> "http" [] t = "HTTPS" -> "https"
       [] t = "EXAMPLE" -> "example" [] t = "LOCALHOST" -> "localhost"
       [] t = "FC00" -> "fc00" [] t = "FE80" -> "fe80"]

LowerTok(t) == IF t \in DOMAIN TokenLower THEN TokenLower[t] ELSE t

LowerToks(ts) == [i \in 1..Len(ts) |-> LowerTok(ts[i])]

\* url.trim()
Trim(u) == [u EXCEPT !.ws = FALSE]

\* url.match(/^https?:\/\//i)
HasHttpPrefix(u) == LowerTok(u.scheme) \in {"http", "https"} /\ u.slashes

\* 'https://' + url
PrefixHttps(u) ==
  IF u.scheme = ""
  THEN [u EXCEPT !.scheme = "https", !.slashes = TRUE]
  ELSE IF u.slashes
  THEN \* https://ftp://host/p : host "ftp", empty port, path "//host/p"
       [ws |-> u.ws, scheme |-> "https", slashes |-> TRUE,
        host |-> <<u.scheme>>, port |-> "",
        path |-> <<"//">> \o u.host \o
                 (IF u.port = "" THEN <<>> ELSE <<":", u.port>>) \o u.path]
  ELSE \* https://javascript:alert(1) : host "javascript", port "alert(1)"
       [ws |-> u.ws, scheme |-> "https", slashes |-> TRUE,
        host |-> <<u.scheme>>,
        port |-> IF u.host = <<>> THEN "" ELSE u.host[1],
        path |-> u.path]

\* port texts the URL parser accepts (decimal, at most 65535)
PortTexts == {"", "80", "443", "3000", "8080"}

\* code points the URL parser forbids in a host
ForbiddenHostTokens == {" ", "<", ">", "^", "|"}

DefaultPort(scheme) ==
  CASE scheme = "http" -> "80" [] scheme = "https" -> "443"
    [] scheme = "ftp" -> "21" [] OTHER -> ""

ParseFailure ==
  [ok |-> FALSE, protocol |-> "", hostname |-> <<>>, port |-> "",
   path |-> <<>>]

\* new URL(url): the parts of the parsed URL, or failure (the constructor
\* throws)
ParseURL(u) ==
  LET scheme == LowerTok(u.scheme)
  IN IF u.scheme = "" THEN ParseFailure
     ELSE IF scheme \in {"http", "https", "ftp"}
     THEN IF \/ u.host = <<>>
             \/ \E i \in 1..Len(u.host) : u.host[i] \in ForbiddenHostTokens
             \/ u.port \notin PortTexts
          THEN ParseFailure
          ELSE [ok |-> TRUE, protocol |-> scheme,
                hostname |-> LowerToks(u.host),
                port |-> IF u.port = DefaultPort(scheme) THEN "" ELSE u.port,
                path |-> IF u.path = <<>> THEN <<"/">> ELSE u.path]
     ELSE IF scheme = "file"
     THEN [ok |-> TRUE, protocol |-> scheme, hostname |-> <<>>,
           port |-> "", path |-> IF u.path = <<>> THEN <<"/">> ELSE u.path]
     ELSE \* javascript:, data:, vbscript: have an opaque path and no host
          [ok |-> TRUE, protocol |-> scheme, hostname |-> <<>>,
           port |-> "", path |-> u.host \o u.path]

\* parsed.toString()
SerializeURL(parsed) ==
  [ws |-> FALSE, scheme |-> parsed.protocol,
   slashes |-> parsed.protocol \in {"http", "https", "ftp", "file"},
   host |-> parsed.hostname, port |-> parsed.port, path |-> parsed.path]

isValidURL(url) ==
  LET parsed == ParseURL(url)
  IN IF parsed.ok THEN parsed.protocol \in {"http", "https"} ELSE FALSE

dangerousProtocols == {"javascript", "data", "vbscript", "file"}

\* the six privateIPRegexes, each anchored at the start of the hostname
privateIPRegexes(hostname) ==
  \/ StartsWith(hostname, <<"10", ".">>)
  \/ /\ Len(hostname) >= 4
     /\ hostname[1] = "172" /\ hostname[2] = "."
     /\ hostname[3] \in {"16", "17", "18", "19", "20", "21", "22", "23",
                         "24", "25", "26", "27", "28", "29", "30", "31"}
     /\ hostname[4] = "."
  \/ StartsWith(hostname, <<"192", ".", "168", ".">>)
  \/ StartsWith(hostname, <<"169", ".", "254", ".">>)
  \/ StartsWith(hostname, <<"fc00", ":">>)
  \/ StartsWith(hostname, <<"fe80", ":">>)

isDangerousURL(url) ==
  LET parsed == ParseURL(url)
      hostname == LowerToks(parsed.hostname)
  IN IF ~parsed.ok THEN TRUE
     ELSE IF parsed.protocol \in dangerousProtocols THEN TRUE
     ELSE IF \/ hostname = <<"localhost">>
             \/ hostname = <<"127", ".", "0", ".", "0", ".", "1">>
             \/ hostname = <<"[", ":", ":", "1", "]">>
     THEN TRUE
     ELSE privateIPRegexes(hostname)

normalizeURL(raw) ==
  LET trimmed == Trim(raw)
      url == IF HasHttpPrefix(trimmed) THEN trimmed ELSE PrefixHttps(trimmed)
      parsed == ParseURL(url)
  IN IF parsed.ok THEN SerializeURL(parsed) ELSE url

\* ------------------------------------------- Session & Token Authenticator
\* HMAC-SHA256 as an ideal MAC: the hex signature stands for the pair of
\* the signed message and the key, so two signatures are equal exactly when
\* message and key are.
HMAC(message, key) == [msg |-> message, key |-> key]

\* A session cookie value as split('.') and parseInt see it: the number of
\* dot-separated parts, the integer parseInt reads at the start of the first
\* part (nan when there is none), whether characters follow those digits,
\* and the second part.
NoCookie ==
  [present |-> FALSE, parts |-> 0, num |-> 0, nan |-> TRUE, junk |-> FALSE,
   sig |-> HMAC(0, "")]

NULL_TS == -1

\* `${timestamp}.${signatureHex}`; importKey rejects a zero-length key
signSessionCookie(timestamp, secret) ==
  [present |-> TRUE, parts |-> 2, num |-> timestamp, nan |-> FALSE,
   junk |-> FALSE, sig |-> HMAC(timestamp, secret)]

\* verifySessionCookie refusing a cookie at the end of its seventh day
verifySessionCookie_ExclusiveAge(cookieValue, secret, dateNow) ==
  IF cookieValue.parts # 2 \/ cookieValue.nan \/ secret = "" THEN NULL_TS
  ELSE IF dateNow - cookieValue.num >= sevenDaysMs THEN NULL_TS
  ELSE IF cookieValue.sig = signSessionCookie(cookieValue.num, secret).sig
  THEN cookieValue.num
  ELSE NULL_TS

verifySessionCookie(cookieValue, secret, dateNow) ==
  IF cookieValue.parts # 2 THEN NULL_TS
  ELSE IF cookieValue.nan THEN NULL_TS
  ELSE IF dateNow - cookieValue.num > sevenDaysMs THEN NULL_TS
  ELSE IF secret = "" THEN NULL_TS
  ELSE IF cookieValue.sig = signSessionCookie(cookieValue.num, secret).sig
  THEN cookieValue.num
  ELSE NULL_TS

\* isAuthenticated without the verification of the cookie
isAuthenticated_Unverified(request, secret, dateNow) ==
  IF secret = "" THEN TRUE ELSE request.cookie.present

\* isAuthenticated taking the bearer token as well as the cookie
isAuthenticated_OrBearer(request, secret, dateNow) ==
  IF secret = "" THEN TRUE
  ELSE \/ request.auth = <<"Bearer", secret>>
       \/ /\ request.cookie.present
          /\ verifySessionCookie(request.cookie, secret, dateNow) # NULL_TS

\* request.cookie is the value of url_shortener_session in the Cookie header
\* isAuthenticated without the early return for an unset secret
isAuthenticated_NoDevMode(request, secret, dateNow) ==
  IF ~request.cookie.present THEN FALSE
  ELSE verifySessionCookie(request.cookie, secret, dateNow) # NULL_TS

isAuthenticated(request, secret, dateNow) ==
  IF secret = "" THEN TRUE
  ELSE IF ~request.cookie.present THEN FALSE
  ELSE verifySessionCookie(request.cookie, secret, dateNow) # NULL_TS

\* request.auth is authHeader.split(' '), <<>> when the header is absent
authenticateAPIKey(request, secret) ==
  IF request.auth = <<>> THEN FALSE
  ELSE IF Len(request.auth) # 2 \/ request.auth[1] # "Bearer" THEN FALSE
  ELSE request.auth[2] = secret

\* ---------------------------------------------- Crawler-Aware Responder
crawlers ==
  {"facebookexternalhit", "facebookcatalog", "twitterbot", "linkedinbot",
   "whatsapp", "telegram", "slackbot", "discord", "pinterest", "tumblr",
   "redditbot"}

UATokenLower ==
  [t \in {"Twitterbot", "Mozilla", "LinkedInBot", "Slackbot"} |->
     CASE t = "Twitterbot" -> "twitterbot" [] t = "Mozilla" -> "mozilla"
       [] t = "LinkedInBot" -> "linkedinbot" [] t = "Slackbot" -> "slackbot"]

\* User-Agent as a sequence of product tokens; a crawler name is found in
\* the lower-cased header when one of its tokens is that name
isSocialMediaCrawler(userAgent) ==
  IF userAgent = <<>> THEN FALSE
  ELSE \E i \in 1..Len(userAgent) :
         (IF userAgent[i] \in DOMAIN UATokenLower
          THEN UATokenLower[userAgent[i]] ELSE userAgent[i]) \in crawlers

\* ------------------------------------------------------------------ state
VARIABLES
  now,        \* Date.now(), milliseconds
  API_SECRET, \* env.API_SECRET, fixed for the life of the worker
  kvUrls,     \* URLS_KV entries urls:{slug}, by slug
  kvRate,     \* URLS_KV entries rate:{purpose}:{clientIP}, by <<purpose, ip>>
  rq,         \* per handler invocation: position, local variables and,
              \* once it has returned, its response
  issued,     \* timestamps of the session cookies handed out by login
  reqs,       \* number of requests accepted so far
  processed,  \* create/update/delete requests a handler took up, per client
  calls       \* per rate key: when its current window began and the
              \* number of checkRateLimit calls made in it

vars ==
  <<now, API_SECRET, kvUrls, kvRate, rq, issued, reqs, processed, calls>>

Procs == {1, 2}

Secret == "test-secret-key"

\* ---------------------------------------------------------- input domains
S_abc == <<"a", "b", "c">>
S_apis == <<"a", "p", "i", "s">>
S_ABC == <<"A", "B", "C">>
S_ab == <<"a", "b">>
S_bigred == <<"b", "i", "g", "-", "r", "e", "d">>
S_bigred7 == <<"b", "i", "g", "-", "r", "e", "d", "-", "7">>

\* what generateSlug() can return, and the fallback `${generateSlug()}-${n}`
GeneratedSlugs == {S_bigred}
FallbackSlugs == {S_bigred7}

\* slugs named in request paths and bodies
RequestSlugs == {S_abc, S_apis, S_ABC, S_ab}

\* keys urls:{slug} the model tracks
StoreKeys == {S_abc, S_apis} \cup GeneratedSlugs \cup FallbackSlugs

U_example ==
  [ws |-> FALSE, scheme |-> "https", slashes |-> TRUE,
   host |-> <<"example", ".", "com">>, port |-> "", path |-> <<"/a">>]
U_bare ==
  [ws |-> TRUE, scheme |-> "", slashes |-> FALSE,
   host |-> <<"EXAMPLE", ".", "com">>, port |-> "", path |-> <<>>]
U_javascript ==
  [ws |-> FALSE, scheme |-> "javascript", slashes |-> FALSE,
   host |-> <<"alert(1)">>, port |-> "", path |-> <<>>]
U_localhost ==
  [ws |-> FALSE, scheme |-> "http", slashes |-> TRUE,
   host |-> <<"localhost">>, port |-> "3000", path |-> <<"/">>]
U_spaces ==
  [ws |-> FALSE, scheme |-> "", slashes |-> FALSE,
   host |-> <<"not", " ", "a", " ", "url">>, port |-> "", path |-> <<>>]

\* http://[fc00::1]/ : an IPv6 unique-local address
U_ula ==
  [ws |-> FALSE, scheme |-> "http", slashes |-> TRUE,
   host |-> <<"[", "fc00", ":", ":", "1", "]">>, port |-> "", path |-> <<"/">>]

RawURLs == {NoURL, U_example, U_bare, U_javascript, U_localhost, U_ula}

ClientIPs == {"unknown", "198.51.100.7"}
UserAgents == {<<>>, <<"Mozilla">>, <<"Twitterbot">>}
Passwords == {"", Secret, "guess"}

\* ----------------------------------------------------------------- values
NoRecord ==
  [url |-> NoURL, slug |-> <<>>, created |-> 0 - 1, updated |-> 0 - 1,
   metadata |-> "absent"]

NoRate == [count |-> 0, resetTime |-> 0, expireAt |-> 0]

NoResp ==
  [status |-> 0, error |-> "", location |-> NoURL, kind |-> "",
   op |-> "", slug |-> <<>>, setCookie |-> NoCookie,
   clearCookie |-> FALSE, message |-> "", body |-> <<>>]

\* the request fields the handlers read
NoRequest ==
  [method |-> "GET", path |-> P_root, cookie |-> NoCookie, auth |-> <<>>,
   ip |-> "", ua |-> <<>>, json |-> TRUE, url |-> NoURL, slug |-> <<>>,
   password |-> ""]

\* an invocation: its position, its local variables, the response it
\* returned and, for the properties, the request it serves and the instant
\* that request arrived
IdleRq ==
  [pc |-> "idle", op |-> "", surface |-> "", req |-> NoRequest, at |-> 0,
   purpose |-> "", ip |-> "", limit |-> 0, window |-> 0, rlNow |-> 0,
   rateLimitInfo |-> NoRate, slug |-> <<>>, json |-> TRUE, url |-> NoURL,
   crawler |-> FALSE, existing |-> NoRecord, record |-> NoRecord,
   remote |-> "", metadata |-> "absent", attempts |-> 0,
   candidate |-> <<>>, inner |-> NoResp]

\* ------------------------------------------------------ response helpers
Reply(r, status, kind, error) ==
  [NoResp EXCEPT !.status = status, !.kind = kind, !.error = error,
                 !.op = r.op, !.slug = r.slug]

JsonError(r, status, error) == Reply(r, status, "json", error)

\* Response.redirect(url, status)
Redirect(r, status, location) ==
  [Reply(r, status, "redirect", "") EXCEPT !.location = location]

\* the outcome of the synchronous part of a handler: the invocation has its
\* response, or is suspended at its next await
Answer(r, response) ==
  [IdleRq EXCEPT !.pc = "done", !.inner = response, !.req = r.req,
                 !.at = r.at]
Await(r, pc) == [r EXCEPT !.pc = pc]

\* handleCreateURL/handleUpdateURL/handleDeleteURL return their Response to
\* the router (JSON API) or to the form wrapper, which goes on to
\* listAllURLs and renders the admin page
Return(r, response) ==
  IF r.surface = "form"
  THEN Await([r EXCEPT !.inner = response], "f_list")
  ELSE Answer(r, response)

\* the well-known URLs the worker redirects to
U_home ==
  [ws |-> FALSE, scheme |-> "https", slashes |-> TRUE,
   host |-> <<"danny", ".", "is">>, port |-> "", path |-> <<>>]
U_login ==
  [ws |-> FALSE, scheme |-> "https", slashes |-> TRUE,
   host |-> <<"dny", ".", "li">>, port |-> "", path |-> <<"/admin/login">>]
U_adminPage ==
  [ws |-> FALSE, scheme |-> "https", slashes |-> TRUE,
   host |-> <<"dny", ".", "li">>, port |-> "", path |-> <<"/admin">>]

\* --------------------------------------------------- admin CRUD handlers
\* handleCreateURL up to its first await; r.url and r.slug hold body.url
\* and body.slug; when request.json() throws (r.json is FALSE) the catch of
\* the handler answers 500
handleCreateURL(r) ==
  IF ~r.json THEN Return(r, JsonError(r, 500, "Internal server error"))
  ELSE IF r.url = NoURL THEN Return(r, JsonError(r, 400, "URL is required"))
  ELSE LET normalizedURL == normalizeURL(r.url)
       IN IF ~isValidURL(normalizedURL)
          THEN Return(r, JsonError(r, 400, "Invalid URL format"))
          ELSE IF isDangerousURL(normalizedURL)
          THEN Return(r, JsonError(r, 400, "URL contains dangerous content"))
          ELSE IF r.slug # <<>>
          THEN LET slug == toLowerCase(r.slug)
                   r2 == [r EXCEPT !.slug = slug, !.url = normalizedURL]
               IN IF ~isValidCustomSlug(slug)
                  THEN Return(r2, JsonError(r2, 400, "Invalid slug format"))
                  ELSE Await(r2, "c_exists")
          ELSE Await([r EXCEPT !.url = normalizedURL], "c_gen")

\* handleUpdateURL up to its first await; r.slug holds the last path segment
handleUpdateURL(r) ==
  IF r.slug = <<>> THEN Return(r, JsonError(r, 400, "Slug is required"))
  ELSE IF ~r.json THEN Return(r, JsonError(r, 500, "Internal server error"))
  ELSE IF r.url = NoURL THEN Return(r, JsonError(r, 400, "URL is required"))
  ELSE Await(r, "u_get")

\* handleDeleteURL up to its first await
handleDeleteURL(r) ==
  IF r.slug = <<>> THEN Return(r, JsonError(r, 400, "Slug is required"))
  ELSE Await(r, "d_get")

\* ------------------------------------------------------------ auth routes
\* handleAuthRoutes without the comparison of the password
handleAuthRoutes_AnyPassword(request) ==
  LET r == [IdleRq EXCEPT !.op = "auth"]
  IN IF /\ request.path = P_admin_login /\ request.method = "POST"
        /\ request.password # ""
     THEN Answer(r, [Redirect(r, 302, U_adminPage) EXCEPT
                    !.setCookie = signSessionCookie(now, API_SECRET)])
     ELSE Answer(r, Reply(r, 200, "login-form", "Password is required"))

handleAuthRoutes(request) ==
  LET r == [IdleRq EXCEPT !.op = "auth"]
  IN IF request.path = P_admin_login /\ request.method = "GET"
     THEN Answer(r, Reply(r, 200, "login-form", ""))
     ELSE IF request.path = P_admin_login /\ request.method = "POST"
     THEN IF request.password = ""
          THEN Answer(r, Reply(r, 200, "login-form", "Password is required"))
          ELSE IF API_SECRET = ""
          THEN Answer(r, Reply(r, 200, "login-form",
                            "Admin authentication not configured"))
          ELSE IF request.password # API_SECRET
          THEN Answer(r, Reply(r, 200, "login-form", "Invalid password"))
          ELSE Answer(r, [Redirect(r, 302, U_adminPage) EXCEPT
                         !.setCookie = signSessionCookie(now, API_SECRET)])
     ELSE IF request.path = P_admin_logout /\ request.method = "POST"
     THEN \* Set-Cookie: url_shortener_session=; Max-Age=0
          Answer(r, [Redirect(r, 302, U_login) EXCEPT !.clearCookie = TRUE])
     ELSE Answer(r, Reply(r, 404, "text", "Not found"))

\* ------------------------------------------------------ handleAdminRequest
\* what the request asks of the admin handlers, from method and path
AdminOp(request) ==
  IF StartsWith(request.path, P_admin_urls)
  THEN IF request.method = "POST" /\ request.path = P_admin_urls
       THEN "create"
       ELSE IF request.method = "PUT"
               /\ StartsWith(request.path, P_admin_urls_) THEN "update"
       ELSE IF request.method = "DELETE"
               /\ StartsWith(request.path, P_admin_urls_) THEN "delete"
       ELSE "none"
  ELSE IF request.method = "GET" /\ request.path = P_admin THEN "page"
  ELSE IF request.method = "GET" /\ StartsWith(request.path, P_admin_edit_)
  THEN "edit"
  ELSE IF request.method = "POST" /\ request.path = P_admin_create
  THEN "create"
  ELSE IF request.method = "POST"
          /\ StartsWith(request.path, P_admin_update_) THEN "update"
  ELSE IF request.method = "POST"
          /\ StartsWith(request.path, P_admin_delete_) THEN "delete"
  ELSE "none"

\* the slug the handler will work on
AdminSlug(request) ==
  IF StartsWith(request.path, P_admin_urls)
  THEN IF AdminOp(request) = "create" THEN request.slug
       ELSE LastSegment(request.path)
  ELSE IF AdminOp(request) = "edit"
  THEN Substring(request.path, Len(P_admin_edit_))
  ELSE IF AdminOp(request) = "create" THEN request.slug
  ELSE IF AdminOp(request) = "update"
  THEN LastSegment(P_admin_urls_ \o
                   Substring(request.path, Len(P_admin_update_)))
  ELSE IF AdminOp(request) = "delete"
  THEN LastSegment(P_admin_urls_ \o
                   Substring(request.path, Len(P_admin_delete_)))
  ELSE <<>>

\* the HTML interface endpoints, reached once authenticated
htmlEndpoints(r) ==
  IF r.op = "page" THEN Await(r, "list")
  ELSE IF r.op = "edit" THEN Await(r, "e_get")
  ELSE IF r.op = "create" THEN handleCreateURL(r)
  ELSE IF r.op = "update" THEN handleUpdateURL(r)
  ELSE IF r.op = "delete" THEN handleDeleteURL(r)
  ELSE Answer(r, Reply(r, 404, "text", "Not found"))

\* the JSON API routes; anything else under /admin/urls falls through to
\* the HTML interface endpoints
apiEndpoints(r) ==
  IF r.op = "create" THEN handleCreateURL(r)
  ELSE IF r.op = "update" THEN handleUpdateURL(r)
  ELSE IF r.op = "delete" THEN handleDeleteURL(r)
  ELSE htmlEndpoints(r)

\* the admin router counting an API request before it authenticates it
handleAdminRequest_RateFirst(request) ==
  LET api == StartsWith(request.path, P_admin_urls)
      clientIP == IF request.ip = "" THEN "unknown" ELSE request.ip
      r == [IdleRq EXCEPT
              !.op = AdminOp(request),
              !.surface = IF api THEN "api" ELSE "form",
              !.ip = clientIP,
              !.slug = AdminSlug(request),
              !.json = (api => request.json),
              !.url = request.url]
  IN IF request.path = P_admin_login \/ request.path = P_admin_logout
     THEN handleAuthRoutes(request)
     ELSE IF api
     THEN Await([r EXCEPT !.purpose = "admin", !.limit = ADMIN_LIMIT,
                          !.window = ADMIN_WINDOW_MS, !.rlNow = now],
                "rl_get")
     ELSE IF ~isAuthenticated(request, API_SECRET, now)
          THEN Answer(r, Redirect(r, 302, U_login))
          ELSE htmlEndpoints(r)

handleAdminRequest(request) ==
  LET api == StartsWith(request.path, P_admin_urls)
      clientIP == IF request.ip = "" THEN "unknown" ELSE request.ip
      r == [IdleRq EXCEPT
              !.op = AdminOp(request),
              !.surface = IF api THEN "api" ELSE "form",
              !.ip = clientIP,
              !.slug = AdminSlug(request),
              !.json = (api => request.json),
              !.url = request.url]
  IN IF request.path = P_admin_login \/ request.path = P_admin_logout
     THEN handleAuthRoutes(request)
     ELSE IF api
     THEN IF ~isAuthenticated(request, API_SECRET, now)
             /\ ~authenticateAPIKey(request, API_SECRET)
          THEN IF request.method = "GET" /\ request.auth = <<>>
               THEN Answer(r, Redirect(r, 302, U_login))
               ELSE Answer(r, JsonError(r, 401, "Unauthorized - please login"))
          ELSE Await([r EXCEPT !.purpose = "admin", !.limit = ADMIN_LIMIT,
                               !.window = ADMIN_WINDOW_MS, !.rlNow = now],
                     "rl_get")
     ELSE IF ~isAuthenticated(request, API_SECRET, now)
          THEN Answer(r, Redirect(r, 302, U_login))
          ELSE htmlEndpoints(r)

\* ------------------------------------------------------------ Main Router
\* the router counting the lookup before it looks at the slug's format
fetch_RateFirst(request) ==
  LET path == request.path
      slug == toLowerCase(Substring(path, 1))
      clientIP == IF request.ip = "" THEN "unknown" ELSE request.ip
      r == [IdleRq EXCEPT !.op = "redirect", !.surface = "public",
                          !.slug = slug, !.ip = clientIP,
                          !.crawler = isSocialMediaCrawler(request.ua)]
  IN IF path = P_health \/ path = P_status
     THEN Answer(r, Reply([r EXCEPT !.op = "health"], 200, "text", "OK"))
     ELSE IF path = P_all_json
     THEN Await([r EXCEPT !.op = "all.json", !.slug = <<>>], "list")
     ELSE IF StartsWith(path, P_admin) \/ StartsWith(path, P_api)
     THEN handleAdminRequest(request)
     ELSE IF path = P_root \/ path = <<>>
     THEN Answer(r, Redirect([r EXCEPT !.op = "root"], 302, U_home))
     ELSE Await([r EXCEPT !.purpose = "redirect", !.limit = REDIRECT_LIMIT,
                          !.window = REDIRECT_WINDOW_MS, !.rlNow = now],
                "rl_get")

fetch(request) ==
  LET path == request.path
      slug == toLowerCase(Substring(path, 1))
      clientIP == IF request.ip = "" THEN "unknown" ELSE request.ip
      r == [IdleRq EXCEPT !.op = "redirect", !.surface = "public",
                          !.slug = slug, !.ip = clientIP,
                          !.crawler = isSocialMediaCrawler(request.ua)]
  IN IF path = P_health \/ path = P_status
     THEN Answer(r, Reply([r EXCEPT !.op = "health"], 200, "text", "OK"))
     ELSE IF path = P_all_json
     THEN Await([r EXCEPT !.op = "all.json", !.slug = <<>>], "list")
     ELSE IF StartsWith(path, P_admin) \/ StartsWith(path, P_api)
     THEN handleAdminRequest(request)
     ELSE IF path = P_root \/ path = <<>>
     THEN Answer(r, Redirect([r EXCEPT !.op = "root"], 302, U_home))
     ELSE IF slug = <<>> \/ ~isValidCustomSlug(slug)
     THEN Answer(r, Reply(r, 400, "text", "Invalid URL"))
     ELSE Await([r EXCEPT !.purpose = "redirect", !.limit = REDIRECT_LIMIT,
                          !.window = REDIRECT_WINDOW_MS, !.rlNow = now],
                "rl_get")

\* ------------------------------------------------------------ KV backend
RateKeys == {"redirect", "admin"} \X ClientIPs

\* URLS_KV.get of a rate key: an entry written with expirationTtl is gone
\* after its expiry instant, still there before it, and either at it
KVGetRate(key) ==
  LET e == kvRate[key]
  IN IF e = NoRate THEN {NoRate}
     ELSE IF now < e.expireAt THEN {e}
     ELSE IF now = e.expireAt THEN {e, NoRate}
     ELSE {NoRate}

\* the number of seconds of the TTL taken as milliseconds
ExpirationTtlMs_Unconverted(window) == (window + 999) \div 1000

\* expirationTtl: Math.ceil(window / 1000) seconds, in milliseconds
ExpirationTtlMs(window) == ((window + 999) \div 1000) * 1000

\* the fields of a URLRecord, in the order the handlers write them
RecordKeys == <<"url", "slug", "created", "updated", "metadata">>

\* what URLS_KV.get returns for a key without entry
NoEntry == <<>>

JSONstringify_NoMetadata(record) ==
  <<<<"url", record.url>>, <<"slug", record.slug>>,
    <<"created", record.created>>, <<"updated", record.updated>>>>

\* JSON.stringify(record): the text lists the properties as key and value,
\* and leaves out a property whose value is undefined
JSONstringify(record) ==
  LET text[i \in 0..Len(RecordKeys)] ==
        IF i = 0 THEN <<>>
        ELSE IF record[RecordKeys[i]] = NoRecord[RecordKeys[i]]
        THEN text[i - 1]
        ELSE Append(text[i - 1], <<RecordKeys[i], record[RecordKeys[i]]>>)
  IN text[Len(RecordKeys)]

\* JSON.parse(data): the object the text describes, a property the text
\* does not list being undefined; ok is FALSE when JSON.parse throws
JSONparse(data) ==
  LET keys == {RecordKeys[i] : i \in 1..Len(RecordKeys)}
  IN IF \E i \in 1..Len(data) : data[i][1] \notin keys
     THEN [ok |-> FALSE, value |-> NoRecord]
     ELSE [ok |-> TRUE,
           value |-> [f \in keys |->
                        IF \E i \in 1..Len(data) : data[i][1] = f
                        THEN data[CHOOSE i \in 1..Len(data) :
                                    data[i][1] = f][2]
                        ELSE NoRecord[f]]]

\* getURL(env, slug) on the store kv: null without data, the parsed
\* record, null when JSON.parse throws
getURLOf(kv, slug) ==
  IF slug \notin DOMAIN kv THEN NoRecord
  ELSE IF kv[slug] = NoEntry THEN NoRecord
  ELSE IF JSONparse(kv[slug]).ok THEN JSONparse(kv[slug]).value
  ELSE NoRecord

\* getURL(env, slug)
getURL(slug) == getURLOf(kvUrls, slug)

\* ---------------------------------------------------------------- requests
Mutations == {"create", "update", "delete"}

ClientIP == "198.51.100.7"

\* the cookies login handed out
IssuedCookies == {signSessionCookie(t, API_SECRET) : t \in issued}

\* what a client can make of them without the secret: characters appended
\* to the timestamp, the current time written into the timestamp, a
\* signature under a guessed key, a value without a dot
ForgedCookies ==
  {signSessionCookie(now, "guess"),
   [signSessionCookie(now, "guess") EXCEPT !.parts = 1]}
    \cup {[c EXCEPT !.junk = TRUE] : c \in IssuedCookies}
    \cup {[c EXCEPT !.num = now] : c \in IssuedCookies}

AuthHeaders ==
  {<<>>, <<"Bearer", Secret>>, <<"Bearer", "guess">>, <<"Basic", Secret>>}

\* every combination of Cookie and Authorization header the model sends
AllCredentials ==
  {[cookie |-> c, auth |-> <<>>] :
     c \in IssuedCookies \cup ForgedCookies \cup {NoCookie}}
    \cup {[cookie |-> NoCookie, auth |-> a] : a \in AuthHeaders}

Bearer == [cookie |-> NoCookie, auth |-> <<"Bearer", Secret>>]

\* the owner's browser: the cookies login handed out
Sessions == {[cookie |-> c, auth |-> <<>>] : c \in IssuedCookies}

WithCred(request, cred) ==
  [request EXCEPT !.cookie = cred.cookie, !.auth = cred.auth]

Get(path, ua) ==
  [NoRequest EXCEPT !.path = path, !.ua = ua, !.ip = ClientIP]

ApiCreate(url, slug) ==
  [NoRequest EXCEPT !.method = "POST", !.path = P_admin_urls,
                    !.url = url, !.slug = slug, !.ip = ClientIP]
ApiUpdate(slug, url) ==
  [NoRequest EXCEPT !.method = "PUT", !.path = P_admin_urls_ \o slug,
                    !.url = url, !.ip = ClientIP]
ApiDelete(slug) ==
  [NoRequest EXCEPT !.method = "DELETE", !.path = P_admin_urls_ \o slug,
                    !.ip = ClientIP]
\* the same requests with a body that request.json() rejects
NotJSON(request) == [request EXCEPT !.json = FALSE, !.url = NoURL,
                                    !.slug = <<>>]

FormCreate(url, slug) ==
  [NoRequest EXCEPT !.method = "POST", !.path = P_admin_create,
                    !.url = url, !.slug = slug, !.ip = ClientIP]
FormUpdate(slug, url) ==
  [NoRequest EXCEPT !.method = "POST", !.path = P_admin_update_ \o slug,
                    !.url = url, !.ip = ClientIP]
FormDelete(slug) ==
  [NoRequest EXCEPT !.method = "POST", !.path = P_admin_delete_ \o slug,
                    !.ip = ClientIP]

PublicRequests ==
  {[NoRequest EXCEPT !.path = path] :
     path \in {P_health, P_status, P_all_json, P_root, <<>>}}

SlugRequests ==
  {Get(<<"/">> \o S_abc, ua) : ua \in UserAgents}
    \cup {Get(<<"/">> \o s, <<"Mozilla">>) :
            s \in {S_apis, S_ABC, S_ab} \cup GeneratedSlugs}

AuthRequests ==
  {[NoRequest EXCEPT !.path = P_admin_login]}
    \cup {[NoRequest EXCEPT !.path = P_admin_login, !.method = "POST",
                            !.password = pw] : pw \in Passwords}
    \cup {[NoRequest EXCEPT !.path = P_admin_logout, !.method = "POST"]}
    \cup {[NoRequest EXCEPT !.path = P_admin_logout]}

\* one request for every route behind the authentication gate
GatedRoutes ==
  {ApiCreate(U_example, S_apis), ApiUpdate(S_abc, U_bare), ApiDelete(S_abc),
   Get(P_admin_urls, <<>>),
   FormCreate(U_example, S_apis), FormUpdate(S_abc, U_bare),
   FormDelete(S_abc),
   Get(P_admin, <<>>), Get(P_admin_edit_ \o S_abc, <<>>), Get(P_api, <<>>)}

\* the owner at work: every handler and every step of one is exercised
OwnerRequests ==
  {WithCred(q, Bearer) :
     q \in {ApiCreate(U_example, S_abc), ApiCreate(U_bare, <<>>),
            ApiUpdate(S_abc, U_bare), ApiDelete(S_abc)}}
    \cup {WithCred(q, c) :
            q \in {FormCreate(U_example, S_apis), Get(P_admin, <<>>),
                   Get(P_admin_edit_ \o S_abc, <<>>)},
            c \in Sessions}
    \cup {Get(<<"/">> \o S_abc, <<"Mozilla">>)}

\* every credential on every gated route, and the login routes
AuthSpecRequests ==
  OwnerRequests \cup AuthRequests \cup PublicRequests
    \cup {WithCred(q, c) : q \in GatedRoutes, c \in AllCredentials}

\* every kind of destination and slug through both admin surfaces
AdminSpecRequests ==
  OwnerRequests
    \cup {WithCred(q, Bearer) :
            q \in {ApiCreate(u, S_apis) : u \in RawURLs}
                    \cup {ApiUpdate(S_abc, u) : u \in RawURLs}
                    \cup {ApiCreate(U_example, s) : s \in {S_ABC, S_ab}}
                    \cup {ApiUpdate(S_apis, U_example), ApiUpdate(<<>>, U_bare),
                          ApiDelete(S_apis), ApiDelete(<<>>),
                          NotJSON(ApiCreate(NoURL, <<>>)),
                          NotJSON(ApiUpdate(S_abc, NoURL))}}
    \cup {WithCred(q, c) :
            q \in {FormCreate(u, <<>>) : u \in {U_localhost, U_ula}}
                    \cup {FormUpdate(S_abc, u) :
                            u \in {U_bare, U_javascript, U_ula}}
                    \cup {FormCreate(U_bare, S_abc), FormDelete(S_abc)},
            c \in Sessions}

\* links are created and then followed
PublicSpecRequests ==
  OwnerRequests \cup PublicRequests \cup SlugRequests
    \cup {WithCred(ApiUpdate(S_apis, U_bare), Bearer)}

\* the two call sites of checkRateLimit
RateSpecRequests ==
  {Get(<<"/">> \o S_abc, <<"Mozilla">>), WithCred(Get(P_admin_urls, <<>>), Bearer)}

\* ----------------------------------------------------------------- actions
Apply(p, d) == rq' = [rq EXCEPT ![p] = d]

\* bookkeeping for the properties: a call of checkRateLimit at this instant
\* falls into the window its key has open, or opens one when there is none
\* or the open one lies more than `window` back; edge records that a call
\* came at the very instant the stored counter expires, or that the clock
\* moved between the call's Date.now() and its read of the counter
NoCalls == [start |-> 0, n |-> 0, edge |-> FALSE]

Called(c, entry, window) ==
  LET edge == c.edge \/ (entry # NoRate /\ now = entry.expireAt)
  IN IF c.n = 0 \/ now > c.start + window
     THEN [start |-> now, n |-> 1, edge |-> edge]
     ELSE [c EXCEPT !.n = @ + 1, !.edge = edge]

\* a request arrives and runs to its first KV or network await; at most
\* `budget` requests arrive in one behaviour
Receive(p, request, budget) ==
  /\ rq[p].pc = "idle"
  /\ reqs < budget
  /\ LET d == fetch(request)
         key == <<d.purpose, d.ip>>
     IN /\ Apply(p, [d EXCEPT !.req = request, !.at = now])
        /\ issued' = IF d.pc = "done" /\ d.inner.setCookie.present
                     THEN issued \cup {d.inner.setCookie.num} ELSE issued
        /\ calls' = IF d.pc = "rl_get"
                    THEN [calls EXCEPT ![key] =
                            Called(@, kvRate[key], d.window)]
                    ELSE calls
  /\ reqs' = reqs + 1
  /\ UNCHANGED <<now, API_SECRET, kvUrls, kvRate, processed>>

\* checkRateLimit as a sliding block: every counted call moves resetTime
RateGet_Sliding(p) ==
  /\ rq[p].pc = "rl_get"
  /\ \E data \in KVGetRate(<<rq[p].purpose, rq[p].ip>>) :
       LET fresh == [count |-> 1, resetTime |-> rq[p].rlNow + rq[p].window,
                     expireAt |-> 0]
           rateLimitInfo ==
             IF data # NoRate
             THEN IF data.resetTime < rq[p].rlNow THEN fresh
                  ELSE [fresh EXCEPT !.count = data.count + 1]
             ELSE fresh
       IN rq' = [rq EXCEPT ![p].rateLimitInfo = rateLimitInfo,
                           ![p].pc = "rl_put"]
  /\ UNCHANGED <<now, API_SECRET, kvUrls, kvRate, issued, reqs, processed,
                 calls>>

\* checkRateLimit: await env.URLS_KV.get(rateLimitKey) and the new counter
RateGet(p) ==
  /\ rq[p].pc = "rl_get"
  /\ \E data \in KVGetRate(<<rq[p].purpose, rq[p].ip>>) :
       LET fresh == [count |-> 1, resetTime |-> rq[p].rlNow + rq[p].window,
                     expireAt |-> 0]
           rateLimitInfo ==
             IF data # NoRate
             THEN IF data.resetTime < rq[p].rlNow THEN fresh
                  ELSE [data EXCEPT !.count = @ + 1, !.expireAt = 0]
             ELSE fresh
       IN rq' = [rq EXCEPT ![p].rateLimitInfo = rateLimitInfo,
                           ![p].pc = "rl_put"]
  /\ UNCHANGED <<now, API_SECRET, kvUrls, kvRate, issued, reqs, processed,
                 calls>>

\* the comparison with the limit, off by one
isAllowed_Strict(rateLimitInfo, limit) == rateLimitInfo.count < limit

\* return rateLimitInfo.count <= limit
isAllowed(rateLimitInfo, limit) == rateLimitInfo.count <= limit

\* checkRateLimit writing every counter under the redirect key of the client
RatePut_SharedKey(p) ==
  /\ rq[p].pc = "rl_put"
  /\ kvRate' = [kvRate EXCEPT ![<<"redirect", rq[p].ip>>] =
                  [rq[p].rateLimitInfo EXCEPT
                     !.expireAt = now + ExpirationTtlMs(rq[p].window)]]
  /\ LET r == rq[p]
     IN IF ~isAllowed(r.rateLimitInfo, r.limit)
        THEN Apply(p, Answer(r, IF r.purpose = "redirect"
                             THEN Reply(r, 429, "text", "Rate limit exceeded")
                             ELSE JsonError(r, 429, "Rate limit exceeded")))
        ELSE IF r.purpose = "redirect"
        THEN Apply(p, Await(r, "r_get"))
        ELSE Apply(p, apiEndpoints(r))
  /\ UNCHANGED <<now, API_SECRET, kvUrls, issued, reqs, processed, calls>>

\* checkRateLimit as one atomic read-modify-write: the counter is taken
\* from the entry the store holds at the moment of the write
RatePut_Atomic(p) ==
  /\ rq[p].pc = "rl_put"
  /\ LET r == rq[p]
         stored == kvRate[<<r.purpose, r.ip>>]
         rateLimitInfo ==
           IF stored # NoRate /\ stored.resetTime >= r.rlNow
           THEN [stored EXCEPT !.count = @ + 1] ELSE r.rateLimitInfo
     IN /\ kvRate' = [kvRate EXCEPT ![<<r.purpose, r.ip>>] =
                        [rateLimitInfo EXCEPT
                           !.expireAt = now + ExpirationTtlMs(r.window)]]
        /\ IF ~isAllowed(rateLimitInfo, r.limit)
           THEN Apply(p, Answer(r, IF r.purpose = "redirect"
                                THEN Reply(r, 429, "text",
                                           "Rate limit exceeded")
                                ELSE JsonError(r, 429,
                                               "Rate limit exceeded")))
           ELSE IF r.purpose = "redirect"
           THEN Apply(p, Await(r, "r_get"))
           ELSE Apply(p, apiEndpoints(r))
  /\ UNCHANGED <<now, API_SECRET, kvUrls, issued, reqs, processed, calls>>

\* checkRateLimit: await env.URLS_KV.put(...), then the caller's branch on
\* the result, up to the next await
RatePut(p) ==
  /\ rq[p].pc = "rl_put"
  /\ kvRate' = [kvRate EXCEPT ![<<rq[p].purpose, rq[p].ip>>] =
                  [rq[p].rateLimitInfo EXCEPT
                     !.expireAt = now + ExpirationTtlMs(rq[p].window)]]
  /\ LET r == rq[p]
     IN IF ~isAllowed(r.rateLimitInfo, r.limit)
        THEN Apply(p, Answer(r, IF r.purpose = "redirect"
                             THEN Reply(r, 429, "text", "Rate limit exceeded")
                             ELSE JsonError(r, 429, "Rate limit exceeded")))
        ELSE IF r.purpose = "redirect"
        THEN Apply(p, Await(r, "r_get"))
        ELSE Apply(p, apiEndpoints(r))
  /\ UNCHANGED <<now, API_SECRET, kvUrls, issued, reqs, processed, calls>>

\* a handler returns its Response: to the client, or to the form wrapper
Complete(p, response) == Apply(p, Return(rq[p], response))

\* what no handler step after the rate limiter changes
Frame == UNCHANGED <<now, API_SECRET, kvRate, issued, reqs, calls>>

\* URLS_KV.list({ prefix: 'urls:' }): the keys in lexicographic order
ListedKeys == <<S_abc, S_apis, S_bigred, S_bigred7>>

\* urls.sort((a, b) => new Date(b.created) - new Date(a.created)): a stable
\* sort, so x goes behind every element that is not older than x
SortByCreated(urls) ==
  LET Insert(sorted, x) ==
        LET n == Cardinality({i \in 1..Len(sorted) :
                                sorted[i].created >= x.created})
        IN SubSeq(sorted, 1, n) \o <<x>> \o SubSeq(sorted, n + 1, Len(sorted))
      acc[i \in 0..Len(urls)] ==
        IF i = 0 THEN <<>> ELSE Insert(acc[i - 1], urls[i])
  IN acc[Len(urls)]

listAllURLs_BreakOnMalformed(kv) ==
  LET urls[i \in 0..Len(ListedKeys)] ==
        IF i = 0 THEN [list |-> <<>>, broken |-> FALSE]
        ELSE LET data == kv[ListedKeys[i]]
             IN IF urls[i - 1].broken \/ data = NoEntry THEN urls[i - 1]
                ELSE IF JSONparse(data).ok
                THEN [urls[i - 1] EXCEPT
                        !.list = Append(@, JSONparse(data).value)]
                ELSE [urls[i - 1] EXCEPT !.broken = TRUE]
  IN SortByCreated(urls[Len(ListedKeys)].list)

\* listAllURLs(env): the entries under the listed keys that have data and
\* parse, sorted
listAllURLs(kv) ==
  LET urls[i \in 0..Len(ListedKeys)] ==
        IF i = 0 THEN <<>>
        ELSE LET data == kv[ListedKeys[i]]
             IN IF data # NoEntry /\ JSONparse(data).ok
                THEN Append(urls[i - 1], JSONparse(data).value)
                ELSE urls[i - 1]
  IN SortByCreated(urls[Len(ListedKeys)])

\* bookkeeping for the properties: the invocation carried out a create,
\* update or delete for its client
Processed(p) == processed' = [processed EXCEPT ![rq[p].ip] = @ + 1]

\* storeURL with a key that leaves out the slug
storeURL_FixedKey(kv, record) ==
  [kv EXCEPT ![S_abc] = JSONstringify(record)]

\* storeURL(env, record): put JSON.stringify(record) under
\* urls:{record.slug}
storeURL(kv, record) ==
  IF record.slug \in DOMAIN kv
  THEN [kv EXCEPT ![record.slug] = JSONstringify(record)]
  ELSE kv

\* deleteURL(env, slug): delete urls:{slug}
deleteURL_All(kv, slug) == [k \in DOMAIN kv |-> NoEntry]
deleteURL(kv, slug) ==
  [k \in DOMAIN kv |-> IF k = slug THEN NoEntry ELSE kv[k]]

\* the slug lookup answering with a temporary redirect
RedirectGet_Temporary(p) ==
  /\ rq[p].pc = "r_get"
  /\ LET record == getURL(rq[p].slug)
     IN IF record = NoRecord
        THEN Complete(p, Reply(rq[p], 404, "text", "Not found"))
        ELSE Complete(p, Redirect(rq[p], 302, record.url))
  /\ UNCHANGED <<kvUrls, processed>>
  /\ Frame

\* the slug lookup stamping the record it served
RedirectGet_Touch(p) ==
  /\ rq[p].pc = "r_get"
  /\ LET record == getURL(rq[p].slug)
     IN IF record = NoRecord
        THEN /\ Complete(p, Reply(rq[p], 404, "text", "Not found"))
             /\ UNCHANGED kvUrls
        ELSE /\ kvUrls' = storeURL(kvUrls, [record EXCEPT !.updated = now])
             /\ IF rq[p].crawler
                THEN Complete(p, [Reply(rq[p], 200, "og-html", "") EXCEPT
                                    !.location = record.url])
                ELSE Complete(p, Redirect(rq[p], 301, record.url))
  /\ UNCHANGED processed
  /\ Frame

\* slug lookup: getURL, then the crawler branch
RedirectGet(p) ==
  /\ rq[p].pc = "r_get"
  /\ LET record == getURL(rq[p].slug)
     IN IF record = NoRecord
        THEN Complete(p, Reply(rq[p], 404, "text", "Not found"))
        ELSE IF rq[p].crawler
        THEN Complete(p, [Reply(rq[p], 200, "og-html", "") EXCEPT
                            !.location = record.url])
        ELSE Complete(p, Redirect(rq[p], 301, record.url))
  /\ UNCHANGED <<kvUrls, processed>>
  /\ Frame

\* handleCreateURL going on without the existence check
CreateExists_NoCheck(p) ==
  /\ rq[p].pc = "c_exists"
  /\ Apply(p, Await(rq[p], "c_meta"))
  /\ UNCHANGED <<kvUrls, processed>>
  /\ Frame

\* handleCreateURL: the existence check for a custom slug
CreateExists(p) ==
  /\ rq[p].pc = "c_exists"
  /\ LET existing == getURL(rq[p].slug)
     IN IF existing # NoRecord
        THEN Complete(p, JsonError(rq[p], 409, "Slug already exists"))
        ELSE Apply(p, Await(rq[p], "c_meta"))
  /\ UNCHANGED <<kvUrls, processed>>
  /\ Frame

\* Math.random() as the fraction x / RandomScale, 0 <= x < RandomScale
RandomScale == 2000

\* the values of Math.random() drawn while requests are handled
RandomDraws == {14}

\* `-${Math.floor(Math.random() * 1000)}` behind a generated slug
WithSuffix(slug, x) == slug \o <<"-", ToString((x * 1000) \div RandomScale)>>

\* generateUniqueSlug with one more turn of the loop
generateUniqueSlugTurn_OneMore(p, candidates, draws) ==
  \E slug \in candidates :
    LET existing == getURL(slug)
        attempts == rq[p].attempts + 1
    IN IF existing = NoRecord
       THEN Apply(p, Await([rq[p] EXCEPT !.slug = slug,
                                         !.candidate = slug], "c_meta"))
       ELSE IF attempts <= maxAttempts
       THEN Apply(p, Await([rq[p] EXCEPT !.attempts = attempts,
                                         !.candidate = slug], "c_gen"))
       ELSE \E fresh \in candidates, x \in draws :
              Apply(p, Await([rq[p] EXCEPT !.attempts = attempts,
                                           !.candidate = slug,
                                           !.slug = WithSuffix(fresh, x)],
                             "c_meta"))

\* generateUniqueSlug: one turn of the loop (generateSlug, getURL; the
\* candidate of the turn is kept in `candidate`), and the fallback once
\* maxAttempts candidates collided: another generateSlug() and a number
generateUniqueSlugTurn(p, candidates, draws) ==
  \E slug \in candidates :
    LET existing == getURL(slug)
        attempts == rq[p].attempts + 1
    IN IF existing = NoRecord
       THEN Apply(p, Await([rq[p] EXCEPT !.slug = slug,
                                         !.candidate = slug], "c_meta"))
       ELSE IF attempts < maxAttempts
       THEN Apply(p, Await([rq[p] EXCEPT !.attempts = attempts,
                                         !.candidate = slug], "c_gen"))
       ELSE \E fresh \in candidates, x \in draws :
              Apply(p, Await([rq[p] EXCEPT !.attempts = attempts,
                                           !.candidate = slug,
                                           !.slug = WithSuffix(fresh, x)],
                             "c_meta"))

\* handleCreateURL: slug = await generateUniqueSlug(env), turn by turn
CreateGen(p) ==
  /\ rq[p].pc = "c_gen"
  /\ generateUniqueSlugTurn(p, GeneratedSlugs, RandomDraws)
  /\ UNCHANGED <<kvUrls, processed>>
  /\ Frame

\* what the remote site does with the request of fetchPageMetadata: it
\* answers 2xx, answers another status, the connection fails, or nothing
\* arrives before the abort timer fires
FetchOutcomes == {"ok", "non2xx", "error", "abort"}

\* what becomes of the body of a 2xx answer: HTML with a title, HTML
\* without any of the tags, a connection that breaks, a body that never
\* ends
BodyOutcomes == {"html", "notags", "reset", "stall"}

\* fetchPageMetadata without its catch: a rejected fetch reaches the catch
\* of the handler
fetchResponse_Rethrow(r, outcome, body, text, next) ==
  IF outcome = "ok" THEN Await([r EXCEPT !.remote = body], text)
  ELSE IF outcome = "non2xx"
  THEN Await([r EXCEPT !.remote = outcome, !.metadata = "empty"], next)
  ELSE Return(r, JsonError(r, 500, "Internal server error"))

\* fetchPageMetadata from setTimeout to the end of `await fetch(...)`: on a
\* response the timer is cleared, a response that is not ok returns {}, an
\* ok one goes on to `await response.text()` (position text); a rejected
\* fetch, the abort included, returns {} from the catch (position next)
fetchResponse(r, outcome, body, text, next) ==
  IF outcome = "ok" THEN Await([r EXCEPT !.remote = body], text)
  ELSE Await([r EXCEPT !.remote = outcome, !.metadata = "empty"], next)

\* fetchPageMetadata from the end of `await response.text()`: the fields
\* the patterns find in the HTML, {} when text() rejects
responseText(r, next) ==
  Await([r EXCEPT !.metadata = IF r.remote = "html" THEN "page"
                               ELSE "empty"], next)

\* handleCreateURL: the record built once fetchPageMetadata has returned
newRecord(r, dateNow) ==
  IF r.pc # "c_store" THEN r
  ELSE [r EXCEPT !.record = [url |-> r.url, slug |-> r.slug,
                             created |-> dateNow, updated |-> dateNow,
                             metadata |-> r.metadata]]

\* handleCreateURL: fetchPageMetadata, the fetch
CreateMeta(p) ==
  /\ rq[p].pc = "c_meta"
  /\ \E outcome \in FetchOutcomes, body \in BodyOutcomes :
       Apply(p, newRecord(fetchResponse(rq[p], outcome, body, "c_text",
                                        "c_store"), now))
  /\ UNCHANGED <<kvUrls, processed>>
  /\ Frame

\* handleCreateURL: fetchPageMetadata, the body; with a body that never
\* ends response.text() stays pending, and the timer is cleared already
CreateText(p) ==
  /\ rq[p].pc = "c_text"
  /\ rq[p].remote # "stall"
  /\ Apply(p, newRecord(responseText(rq[p], "c_store"), now))
  /\ UNCHANGED <<kvUrls, processed>>
  /\ Frame

\* handleCreateURL writing the record only while its key is still free
CreateStore_IfAbsent(p) ==
  /\ rq[p].pc = "c_store"
  /\ kvUrls' = IF getURL(rq[p].slug) = NoRecord
               THEN storeURL(kvUrls, rq[p].record) ELSE kvUrls
  /\ Processed(p)
  /\ Complete(p, [Reply(rq[p], 201, "json", "") EXCEPT
                    !.location = rq[p].record.url,
                    !.body = <<rq[p].record>>])
  /\ Frame

\* storeURL(env, record) and the 201 response, whose `data` is the record
CreateStore(p) ==
  /\ rq[p].pc = "c_store"
  /\ kvUrls' = storeURL(kvUrls, rq[p].record)
  /\ Processed(p)
  /\ Complete(p, [Reply(rq[p], 201, "json", "") EXCEPT
                    !.location = rq[p].record.url,
                    !.body = <<rq[p].record>>])
  /\ Frame

\* handleUpdateURL fetching the metadata on every update
UpdateGet_AlwaysFetch(p) ==
  /\ rq[p].pc = "u_get"
  /\ LET existing == getURL(rq[p].slug)
         normalizedURL == normalizeURL(rq[p].url)
     IN IF existing = NoRecord
        THEN Complete(p, JsonError(rq[p], 404, "URL not found"))
        ELSE IF ~isValidURL(normalizedURL)
        THEN Complete(p, JsonError(rq[p], 400, "Invalid URL format"))
        ELSE IF isDangerousURL(normalizedURL)
        THEN Complete(p, JsonError(rq[p], 400,
                                   "URL contains dangerous content"))
        ELSE Apply(p, Await([rq[p] EXCEPT !.url = normalizedURL,
                                          !.existing = existing], "u_meta"))
  /\ UNCHANGED <<kvUrls, processed>>
  /\ Frame

\* handleUpdateURL: getURL, then validation of the new destination
UpdateGet(p) ==
  /\ rq[p].pc = "u_get"
  /\ LET existing == getURL(rq[p].slug)
         normalizedURL == normalizeURL(rq[p].url)
     IN IF existing = NoRecord
        THEN Complete(p, JsonError(rq[p], 404, "URL not found"))
        ELSE IF ~isValidURL(normalizedURL)
        THEN Complete(p, JsonError(rq[p], 400, "Invalid URL format"))
        ELSE IF isDangerousURL(normalizedURL)
        THEN Complete(p, JsonError(rq[p], 400,
                                   "URL contains dangerous content"))
        ELSE IF normalizedURL # existing.url
        THEN Apply(p, Await([rq[p] EXCEPT !.url = normalizedURL,
                                          !.existing = existing], "u_meta"))
        ELSE Apply(p, Await([rq[p] EXCEPT !.url = normalizedURL,
                                          !.existing = existing,
                                          !.metadata = existing.metadata],
                            "u_upd_get"))
  /\ UNCHANGED <<kvUrls, processed>>
  /\ Frame

\* handleUpdateURL: fetchPageMetadata for a changed destination, the fetch
UpdateMeta(p) ==
  /\ rq[p].pc = "u_meta"
  /\ \E outcome \in FetchOutcomes, body \in BodyOutcomes :
       Apply(p, fetchResponse(rq[p], outcome, body, "u_text", "u_upd_get"))
  /\ UNCHANGED <<kvUrls, processed>>
  /\ Frame

\* handleUpdateURL: fetchPageMetadata for a changed destination, the body
UpdateText(p) ==
  /\ rq[p].pc = "u_text"
  /\ rq[p].remote # "stall"
  /\ Apply(p, responseText(rq[p], "u_upd_get"))
  /\ UNCHANGED <<kvUrls, processed>>
  /\ Frame

\* updateURL with the spreads in the other order: the stored fields win
updateURLRecord_SpreadReversed(existing, updates, dateNow) ==
  [existing EXCEPT !.updated = dateNow]

\* the record updateURL builds from the one it read:
\* {...existing, ...updates, slug: existing.slug, updated: Date.now()}
updateURLRecord(existing, updates, dateNow) ==
  [f \in DOMAIN existing |->
     IF f = "slug" THEN existing.slug
     ELSE IF f = "updated" THEN dateNow
     ELSE IF f \in DOMAIN updates THEN updates[f]
     ELSE existing[f]]

\* updateURL: getURL; a missing record throws, which handleUpdateURL turns
\* into a 500
UpdateURLGet(p) ==
  /\ rq[p].pc = "u_upd_get"
  /\ LET existing == getURL(rq[p].slug)
     IN IF existing = NoRecord
        THEN Complete(p, JsonError(rq[p], 500, "Internal server error"))
        ELSE Apply(p, Await([rq[p] EXCEPT !.record =
                               updateURLRecord(existing,
                                 [url |-> rq[p].url,
                                  metadata |-> rq[p].metadata], now)],
                            "u_upd_put"))
  /\ UNCHANGED <<kvUrls, processed>>
  /\ Frame

\* updateURL: storeURL(env, updated)
UpdateURLPut(p) ==
  /\ rq[p].pc = "u_upd_put"
  /\ kvUrls' = storeURL(kvUrls, rq[p].record)
  /\ Processed(p)
  /\ Apply(p, Await(rq[p], "u_reget"))
  /\ Frame

\* handleUpdateURL: the final getURL and the 200 response
UpdateReget(p) ==
  /\ rq[p].pc = "u_reget"
  /\ LET updated == getURL(rq[p].slug)
     IN Complete(p, [Reply(rq[p], 200, "json", "") EXCEPT
                       !.location = updated.url])
  /\ UNCHANGED <<kvUrls, processed>>
  /\ Frame

\* handleDeleteURL: getURL
DeleteGet_NoCheck(p) ==
  /\ rq[p].pc = "d_get"
  /\ Apply(p, Await(rq[p], "d_del"))
  /\ UNCHANGED <<kvUrls, processed>>
  /\ Frame

DeleteGet(p) ==
  /\ rq[p].pc = "d_get"
  /\ LET existing == getURL(rq[p].slug)
     IN IF existing = NoRecord
        THEN Complete(p, JsonError(rq[p], 404, "URL not found"))
        ELSE Apply(p, Await(rq[p], "d_del"))
  /\ UNCHANGED <<kvUrls, processed>>
  /\ Frame

\* deleteURL(env, slug) and the 200 response
DeleteDel(p) ==
  /\ rq[p].pc = "d_del"
  /\ kvUrls' = deleteURL(kvUrls, rq[p].slug)
  /\ Processed(p)
  /\ Complete(p, Reply(rq[p], 200, "json", "URL deleted successfully"))
  /\ Frame

\* listAllURLs for /all.json and GET /admin
List(p) ==
  /\ rq[p].pc = "list"
  /\ Apply(p, Answer(rq[p], [Reply(rq[p], 200,
                                  IF rq[p].op = "page" THEN "admin-page"
                                  ELSE "json-list", "")
                              EXCEPT !.body = listAllURLs(kvUrls)]))
  /\ UNCHANGED <<kvUrls, processed>>
  /\ Frame

\* form wrapper: listAllURLs and the admin page with the banner made from
\* the handler's response
FormList(p) ==
  /\ rq[p].pc = "f_list"
  /\ LET ok == rq[p].inner.status \in 200..299
     IN Apply(p, Answer(rq[p], [rq[p].inner EXCEPT
                                  !.status = 200, !.kind = "admin-page",
                                  !.message = IF ok THEN "success"
                                              ELSE "error",
                                  !.error = IF ok THEN ""
                                            ELSE IF @ = "" THEN "Failed"
                                            ELSE @,
                                  !.body = listAllURLs(kvUrls)]))
  /\ UNCHANGED <<kvUrls, processed>>
  /\ Frame

\* GET /admin/edit/{slug}
EditGet(p) ==
  /\ rq[p].pc = "e_get"
  /\ LET record == getURL(rq[p].slug)
     IN IF record = NoRecord
        THEN Apply(p, Answer(rq[p], Reply(rq[p], 404, "text", "Not found")))
        ELSE Apply(p, Answer(rq[p], Reply(rq[p], 200, "edit-form", "")))
  /\ UNCHANGED <<kvUrls, processed>>
  /\ Frame

\* the response has been delivered; the invocation ends
Close(p) ==
  /\ rq[p].pc = "done"
  /\ rq' = [rq EXCEPT ![p] = IdleRq]
  /\ UNCHANGED <<now, API_SECRET, kvUrls, kvRate, issued, reqs, processed,
                 calls>>

\* time passes: the clock moves to a later instant of the given set
Tick(clock) ==
  /\ \E t \in clock : t > now /\ now' = t
  /\ calls' = [key \in DOMAIN calls |->
                IF \E p \in Procs : /\ rq[p].pc = "rl_get"
                                    /\ key = <<rq[p].purpose, rq[p].ip>>
                THEN [calls[key] EXCEPT !.edge = TRUE]
                ELSE calls[key]]
  /\ UNCHANGED <<API_SECRET, kvUrls, kvRate, rq, issued, reqs, processed>>

\* -------------------------------------------------------- specifications
\* A state the worker is in at time 0.
\*   preload: the counters of the client stand one short of their limits
\*     after 59 lookups and 49 API requests that each changed a record;
\*   stored: the record of S_abc exists, created at time 0 by one of those
\*     API requests or, when there were none, through the admin form;
\*   session: the owner logged in at time 0 and holds that cookie.
R_abc ==
  [url |-> normalizeURL(U_example), slug |-> S_abc, created |-> 0,
   updated |-> 0, metadata |-> "page"]

InitOf(secrets, preloads, storeds, sessions) ==
  /\ now = 0
  /\ API_SECRET \in secrets
  /\ \E preload \in preloads, stored \in storeds, session \in sessions :
       /\ stored => (preload \/ session)
       /\ (API_SECRET = "") => ~session
       /\ kvUrls = [k \in StoreKeys |->
                      IF k = S_abc /\ stored THEN JSONstringify(R_abc)
                      ELSE NoEntry]
       /\ kvRate =
            [k \in RateKeys |->
               IF k = <<"redirect", ClientIP>> /\ preload
               THEN [count |-> REDIRECT_LIMIT - 1,
                     resetTime |-> REDIRECT_WINDOW_MS,
                     expireAt |-> ExpirationTtlMs(REDIRECT_WINDOW_MS)]
               ELSE IF k = <<"admin", ClientIP>> /\ preload
               THEN [count |-> ADMIN_LIMIT - 1,
                     resetTime |-> ADMIN_WINDOW_MS,
                     expireAt |-> ExpirationTtlMs(ADMIN_WINDOW_MS)]
               ELSE NoRate]
       /\ calls =
            [k \in RateKeys |->
               IF k = <<"redirect", ClientIP>> /\ preload
               THEN [NoCalls EXCEPT !.n = REDIRECT_LIMIT - 1]
               ELSE IF k = <<"admin", ClientIP>> /\ preload
               THEN [NoCalls EXCEPT !.n = ADMIN_LIMIT - 1]
               ELSE NoCalls]
       /\ processed =
            [ip \in ClientIPs |->
               IF ip # ClientIP THEN 0
               ELSE IF preload THEN ADMIN_LIMIT - 1
               ELSE IF stored THEN 1 ELSE 0]
       /\ issued = IF session THEN {0} ELSE {}
  /\ rq = [p \in Procs |-> IdleRq]
  /\ reqs = 0

\* the steps of the handlers of invocation p
Step(p) ==
  \/ RateGet(p)
  \/ RatePut(p)
  \/ RedirectGet(p)
  \/ CreateExists(p)
  \/ CreateGen(p)
  \/ CreateMeta(p)
  \/ CreateText(p)
  \/ CreateStore(p)
  \/ UpdateGet(p)
  \/ UpdateMeta(p)
  \/ UpdateText(p)
  \/ UpdateURLGet(p)
  \/ UpdateURLPut(p)
  \/ UpdateReget(p)
  \/ DeleteGet(p)
  \/ DeleteDel(p)
  \/ List(p)
  \/ FormList(p)
  \/ EditGet(p)
  \/ Close(p)

\* instants past the end of both rate windows opened at the one before
LongClock == {k * (ADMIN_WINDOW_MS + REDIRECT_WINDOW_MS) : k \in 0..MaxTicks}

\* the owner's requests, handled concurrently by the runtime
Init == InitOf({Secret}, {FALSE}, BOOLEAN, {TRUE})

Next ==
  \/ \E p \in Procs, request \in OwnerRequests :
       Receive(p, request, MaxRequests)
  \/ \E p \in Procs : Step(p)
  \/ Tick(LongClock)

Spec == Init /\ [][Next]_vars

\* requests handled one after the other: admin work on both surfaces
AdminInit == InitOf({Secret}, BOOLEAN, BOOLEAN, {TRUE})

AdminNext ==
  \/ \E request \in AdminSpecRequests : Receive(1, request, MaxRequests)
  \/ Step(1)
  \/ Tick(LongClock)

AdminSpec == AdminInit /\ [][AdminNext]_vars

\* requests handled one after the other: links created and followed
PublicInit == InitOf({Secret}, BOOLEAN, BOOLEAN, {TRUE})

PublicNext ==
  \/ \E request \in PublicSpecRequests : Receive(1, request, MaxRequests)
  \/ Step(1)
  \/ Tick(LongClock)

PublicSpec == PublicInit /\ [][PublicNext]_vars

\* requests handled one after the other: every credential on every route,
\* around the end of a session's life
AuthClock == {0} \cup {sevenDaysMs + k * REDIRECT_WINDOW_MS : k \in 0..MaxTicks}

AuthInit == InitOf({Secret}, {FALSE}, {TRUE}, BOOLEAN)

AuthNext ==
  \/ \E request \in AuthSpecRequests : Receive(1, request, MaxRequests)
  \/ Step(1)
  \/ Tick(AuthClock)

AuthSpec == AuthInit /\ [][AuthNext]_vars

\* the owner's browser and a second client at the same time: logins,
\* logouts and requests that present the session cookie, up to the end of
\* the cookie's life and past it
SessionSpecRequests ==
  {r \in AuthRequests : r.method = "POST"}
    \cup {WithCred(q, c) :
            q \in {Get(P_admin, <<>>), Get(P_admin_edit_ \o S_abc, <<>>),
                   FormDelete(S_abc), Get(P_admin_urls, <<>>),
                   [NoRequest EXCEPT !.path = P_admin_logout,
                                     !.method = "POST"]},
            c \in Sessions \cup {[cookie |-> NoCookie, auth |-> <<>>]}}

SessionInit == InitOf({Secret}, {FALSE}, {TRUE}, {TRUE})

SessionNext ==
  \/ \E p \in Procs : \E request \in SessionSpecRequests :
       Receive(p, request, MaxRequests + 1)
  \/ \E p \in Procs :
       \/ RateGet(p)
       \/ RatePut(p)
       \/ DeleteGet(p)
       \/ DeleteDel(p)
       \/ List(p)
       \/ FormList(p)
       \/ EditGet(p)
       \/ Close(p)
  \/ Tick(AuthClock)

SessionSpec == SessionInit /\ [][SessionNext]_vars

\* the storage functions called directly, one call after the other, on a
\* store that may hold an entry that is no JSON
Malformed == <<<<"{", "">>>>

StoreClock == {k * REDIRECT_WINDOW_MS : k \in 0..(MaxTicks + 1)}

\* the records handed to storeURL
StoreRecords ==
  {[url |-> normalizeURL(U_example), slug |-> slug, created |-> t,
    updated |-> t,
    metadata |-> IF slug = S_bigred THEN "absent" ELSE "page"] :
     slug \in {S_abc, S_apis, S_bigred},
     t \in {c \in StoreClock : c <= now}}

\* the updates handed to updateURL: Partial<URLRecord>
PartialFields ==
  {<<>>,
   [url |-> normalizeURL(U_bare)],
   [url |-> normalizeURL(U_bare), metadata |-> "empty"],
   [slug |-> S_apis],
   [created |-> REDIRECT_WINDOW_MS],
   [url |-> normalizeURL(U_bare), slug |-> S_bigred, created |-> 0,
    updated |-> 0]}

\* the call has returned (error = "") or thrown
Returned(op, slug, argument, existing, error, body) ==
  rq' = [rq EXCEPT ![1] =
           [IdleRq EXCEPT !.pc = "done", !.op = op, !.slug = slug,
                          !.record = argument, !.existing = existing,
                          !.at = now,
                          !.inner = [NoResp EXCEPT !.op = op,
                                                   !.error = error,
                                                   !.body = body]]]

StoreFrame ==
  /\ rq[1].pc = "idle"
  /\ reqs < MaxRequests + 1
  /\ reqs' = reqs + 1
  /\ UNCHANGED <<now, API_SECRET, kvRate, issued, processed, calls>>

CallStoreURL ==
  /\ \E record \in StoreRecords :
       /\ kvUrls' = storeURL(kvUrls, record)
       /\ Returned("storeURL", record.slug, record, NoRecord, "", <<>>)
  /\ StoreFrame

CallGetURL ==
  /\ \E slug \in StoreKeys \cup {S_ab} :
       Returned("getURL", slug, getURL(slug), NoRecord, "", <<>>)
  /\ UNCHANGED kvUrls
  /\ StoreFrame

\* updateURL(env, slug, updates)
CallUpdateURL ==
  /\ \E slug \in {S_abc, S_apis}, updates \in PartialFields :
       LET existing == getURL(slug)
       IN IF existing = NoRecord
          THEN /\ UNCHANGED kvUrls
               /\ Returned("updateURL", slug, updates, existing,
                           "URL not found", <<>>)
          ELSE /\ kvUrls' = storeURL(kvUrls,
                                     updateURLRecord(existing, updates, now))
               /\ Returned("updateURL", slug, updates, existing, "", <<>>)
  /\ StoreFrame

CallDeleteURL ==
  /\ \E slug \in {S_abc, S_apis, S_bigred} :
       /\ kvUrls' = deleteURL(kvUrls, slug)
       /\ Returned("deleteURL", slug, NoRecord, NoRecord, "", <<>>)
  /\ StoreFrame

CallListAllURLs ==
  /\ Returned("listAllURLs", <<>>, NoRecord, NoRecord, "",
              listAllURLs(kvUrls))
  /\ UNCHANGED kvUrls
  /\ StoreFrame

StoreInit ==
  /\ now = 0
  /\ API_SECRET = Secret
  /\ \E stored, malformed \in BOOLEAN :
       kvUrls = [k \in StoreKeys |->
                   IF k = S_abc /\ stored THEN JSONstringify(R_abc)
                   ELSE IF k = S_apis /\ malformed THEN Malformed
                   ELSE IF k = S_bigred7 /\ stored /\ malformed
                   THEN JSONstringify([R_abc EXCEPT !.slug = S_bigred7])
                   ELSE NoEntry]
  /\ kvRate = [k \in RateKeys |-> NoRate]
  /\ calls = [k \in RateKeys |-> NoCalls]
  /\ processed = [ip \in ClientIPs |-> 0]
  /\ issued = {}
  /\ rq = [p \in Procs |-> IdleRq]
  /\ reqs = 0

StoreNext ==
  \/ CallStoreURL
  \/ CallGetURL
  \/ CallUpdateURL
  \/ CallDeleteURL
  \/ CallListAllURLs
  \/ Close(1)
  \/ Tick(StoreClock)

StoreSpec == StoreInit /\ [][StoreNext]_vars

\* sequential calls of checkRateLimit from its two call sites, inside a
\* window, at its end and after it
RateClock ==
  {b + k * (REDIRECT_WINDOW_MS \div 2) :
     b \in {0, ADMIN_WINDOW_MS}, k \in 0..(MaxTicks + 1)}

RateInit == InitOf({Secret}, BOOLEAN, {TRUE}, {TRUE})

RateNext ==
  \/ \E request \in RateSpecRequests : Receive(1, request, MaxCalls)
  \/ RateGet(1)
  \/ RatePut(1)
  \/ RedirectGet(1)
  \/ Close(1)
  \/ Tick(RateClock)

RateSpec == RateInit /\ [][RateNext]_vars

\* ------------------------------------------------------------- properties
Busy(p) == rq[p].pc \notin {"idle", "done"}

\* a session cookie that is valid at instant t: two dot-separated parts, a
\* number in the first, in the second the HMAC of that number under the
\* configured secret, and the number at most seven days before t
ValidSession(cookie, t) ==
  /\ cookie.present
  /\ cookie.parts = 2
  /\ ~cookie.nan
  /\ cookie.sig = HMAC(cookie.num, API_SECRET)
  /\ t - cookie.num <= sevenDaysMs

\* the request carries a valid session cookie or the secret as bearer token
HasCredential(request, t) ==
  \/ ValidSession(request.cookie, t)
  \/ request.auth = <<"Bearer", API_SECRET>>

\* the request asks for a change of the records
AsksMutation(request) ==
  /\ AdminOp(request) \in Mutations
  /\ StartsWith(request.path, P_admin)

\* C1: with a non-empty secret configured, the URL records change only in a
\* step of an invocation whose request carried a valid session cookie or a
\* valid bearer token when it arrived; no step of any other request, on any
\* path, creates, modifies or deletes a record.
C1_WritesNeedCredential ==
  [][(API_SECRET # "" /\ kvUrls' # kvUrls) =>
       \E p \in Procs :
         /\ Busy(p)
         /\ rq'[p] # rq[p]
         /\ HasCredential(rq[p].req, rq[p].at)]_vars

\* a request for a change that carried a cookie, but no valid credential,
\* has been answered
C1_Witness ==
  \E p \in Procs :
    /\ rq[p].pc = "done"
    /\ AsksMutation(rq[p].req)
    /\ rq[p].req.cookie.present
    /\ ~HasCredential(rq[p].req, rq[p].at)

\* the admin HTML routes, which take the session cookie only
CookieGated(request) ==
  /\ StartsWith(request.path, P_admin) \/ StartsWith(request.path, P_api)
  /\ ~StartsWith(request.path, P_admin_urls)
  /\ request.path \notin {P_admin_login, P_admin_logout}

\* the answer of the gate to a request it does not let through
Refused(r) ==
  /\ r.pc = "done"
  /\ r.inner.status \in {302, 401}
  /\ r.inner.status = 302 => r.inner.location = U_login

\* the cookie value is exactly "<timestamp>.<signature>": nothing but the
\* timestamp stands before the dot
WellFormedSession(cookie, t) == ValidSession(cookie, t) /\ ~cookie.junk

\* C10: a session cookie value is accepted at time now if and only if it
\* has the form "<timestamp>.<signature>" with signature =
\* HMAC-SHA256(timestamp, secret) and now - timestamp at most seven days: a
\* request to an admin HTML route is let through exactly when its cookie is
\* of that form.
C10_CookieAcceptedIff ==
  \A p \in Procs :
    (API_SECRET # "" /\ rq[p].pc # "idle" /\ CookieGated(rq[p].req)) =>
      (~Refused(rq[p]) <=> WellFormedSession(rq[p].req.cookie, rq[p].at))

\* the requests the router hands to the slug lookup: every path outside
\* the health, listing, admin/API and root routes
SlugRoute(request) ==
  /\ request.path \notin {P_health, P_status, P_all_json, P_root, <<>>}
  /\ ~StartsWith(request.path, P_admin)
  /\ ~StartsWith(request.path, P_api)

PathSlug(request) == toLowerCase(Substring(request.path, 1))

ClientOf(request) == IF request.ip = "" THEN "unknown" ELSE request.ip

\* the hosts the URL Safety Validator is to refuse: localhost, 127.0.0.1,
\* ::1, 10.0.0.0/8, 172.16.0.0/12, 192.168.0.0/16, 169.254.0.0/16,
\* fc00::/7 and fe80::/10
PrivateHost(hostname) ==
  LET h == IF hostname # <<>> /\ hostname[1] = "["
           THEN SubSeq(hostname, 2, Len(hostname) - 1) ELSE hostname
  IN \/ h = <<"localhost">>
     \/ h = <<"127", ".", "0", ".", "0", ".", "1">>
     \/ h = <<":", ":", "1">>
     \/ StartsWith(h, <<"10", ".">>)
     \/ /\ Len(h) >= 4
        /\ h[1] = "172" /\ h[2] = "." /\ h[4] = "."
        /\ h[3] \in {"16", "17", "18", "19", "20", "21", "22", "23",
                     "24", "25", "26", "27", "28", "29", "30", "31"}
     \/ StartsWith(h, <<"192", ".", "168", ".">>)
     \/ StartsWith(h, <<"169", ".", "254", ".">>)
     \/ /\ Len(h) >= 2
        /\ h[1] \in {"fc00", "fd00", "fe80"} /\ h[2] = ":"

\* C2: every stored record has a url that is valid (parseable, scheme http
\* or https) and not dangerous (no localhost, loopback or private-range
\* host).
C2_StoredURLsSafe ==
  \A k \in StoreKeys :
    getURL(k) # NoRecord =>
      LET parsed == ParseURL(getURL(k).url)
      IN /\ parsed.ok
         /\ parsed.protocol \in {"http", "https"}
         /\ ~PrivateHost(parsed.hostname)

\* the response a create request gets when its slug is taken
Conflict(r) ==
  /\ r.pc = IF r.surface = "form" THEN "f_list" ELSE "done"
  /\ r.inner.status = 409
  /\ r.inner.error = "Slug already exists"

\* C3: in a sequential execution, when a create request with a custom slug
\* reaches the lookup of that slug and a record exists under it, the request
\* is answered 409 "Slug already exists" and the store, the existing record
\* with it, stays as it is.
C3_DuplicateSlugConflict ==
  [][\A p \in Procs :
       (/\ rq[p].pc = "c_exists"
        /\ getURL(rq[p].slug) # NoRecord
        /\ rq'[p] # rq[p]) =>
         (kvUrls' = kvUrls /\ Conflict(rq'[p]))]_vars

\* a create for the stored slug has been answered 409 and the record is the
\* one stored before
C3_Witness ==
  /\ rq[1].pc = "done"
  /\ rq[1].req = WithCred(ApiCreate(U_example, S_abc), Bearer)
  /\ rq[1].inner.status = 409
  /\ getURL(S_abc) = R_abc

\* C4: the record stored under key urls:k always has slug = k, whatever the
\* interleaving of creates, updates and deletes.
C4_SlugIsKey ==
  \A k \in StoreKeys : getURL(k) # NoRecord => getURL(k).slug = k

\* two records are stored while two invocations are under way
C4_Witness ==
  /\ Cardinality({k \in StoreKeys : getURL(k) # NoRecord}) >= 2
  /\ \A p \in Procs : Busy(p)

\* C5: every short link works once created: the answer to a GET /{slug} of
\* a stored slug, from a client that is no crawler and within its rate
\* limit, is 301 with Location equal to the record's url.
C5_CreatedLinkRedirects ==
  \A p \in Procs : \A s \in StoreKeys :
    (/\ rq[p].pc = "done"
     /\ rq[p].req.method = "GET"
     /\ rq[p].req.path = <<"/">> \o s
     /\ getURL(s) # NoRecord
     /\ ~isSocialMediaCrawler(rq[p].req.ua)
     /\ calls[<<"redirect", ClientOf(rq[p].req)>>].n <= REDIRECT_LIMIT) =>
      (rq[p].inner.status = 301 /\ rq[p].inner.location = getURL(s).url)

Updated(r) ==
  /\ r.pc = "done"
  /\ r.inner.op = "update"
  /\ r.inner.status = 200
  /\ r.inner.error = ""

\* C7: redirect freshness, in a sequential execution: once an update of slug
\* s to destination u2 has succeeded, the record of s holds u2, and every 301
\* of the slug lookup carries the url of the record stored for its slug, so
\* never an earlier destination.
C7_RedirectFresh ==
  \A p \in Procs :
    /\ Updated(rq[p]) =>
         getURL(rq[p].inner.slug).url = normalizeURL(rq[p].req.url)
    /\ (rq[p].pc = "done" /\ rq[p].inner.status = 301) =>
         rq[p].inner.location = getURL(PathSlug(rq[p].req)).url

\* the lookup of S_abc redirects to the destination an update gave it
C7_Witness ==
  /\ rq[1].pc = "done"
  /\ rq[1].inner.status = 301
  /\ PathSlug(rq[1].req) = S_abc
  /\ rq[1].inner.location = normalizeURL(U_bare)
  /\ getURL(S_abc).updated >= getURL(S_abc).created
  /\ getURL(S_abc).url # R_abc.url

\* C8: for sequential calls of checkRateLimit on one key, the count stored
\* by a call is the number of calls made in the current window, where a
\* window begins with the first call after the previous one has elapsed
\* (more than `window` ms after its start) and that call stores count 1 and
\* resetTime = its instant + window; the call returns true exactly when
\* that number is at most `limit`.  Left out are the keys with a call at
\* the very instant their stored counter expires, or with a call during
\* which the clock moved before the counter was read.
C8_FixedWindowCount ==
  [][\A p \in Procs :
       LET key == <<rq[p].purpose, rq[p].ip>>
       IN (/\ rq[p].pc = "rl_put"
           /\ rq'[p].pc # "rl_put"
           /\ ~calls[key].edge) =>
            /\ kvRate'[key].count = calls[key].n
            /\ kvRate'[key].resetTime = calls[key].start + rq[p].window
            /\ (rq'[p].pc = "done" /\ rq'[p].inner.status = 429)
                 <=> calls[key].n > rq[p].limit]_vars

\* a call made after the first window had elapsed has stored count 1 and
\* been let through to the slug lookup
C8_Witness ==
  LET key == <<"redirect", ClientIP>>
  IN /\ calls[key].start > 0
     /\ calls[key].n = 1
     /\ ~calls[key].edge
     /\ kvRate[key].count = 1
     /\ reqs >= 3
     /\ rq[1].pc = "r_get"

\* C9: admin actions are rate-limited on both surfaces: within the 15-minute
\* window that began at time 0, at most 50 creates, updates and deletes are
\* carried out for one client IP, whether asked through /admin/urls... or
\* through /admin/create, /admin/update/{slug}, /admin/delete/{slug}.
C9_AdminActionsLimited ==
  \A ip \in ClientIPs :
    now < ADMIN_WINDOW_MS => processed[ip] <= ADMIN_LIMIT

\* a logout request
IsLogout(request) ==
  request.path = P_admin_logout /\ request.method = "POST"

\* the routes behind the authentication gate
Gated(request) ==
  /\ StartsWith(request.path, P_admin) \/ StartsWith(request.path, P_api)
  /\ request.path \notin {P_admin_login, P_admin_logout}

\* request `later` arrived after the logout `out` was answered, with a
\* cookie that login had issued before that logout and that is at most
\* seven days old
AfterLogout(out, later) ==
  /\ out.pc = "done" /\ IsLogout(out.req)
  /\ later.pc = "done" /\ Gated(later.req)
  /\ later.at > out.at
  /\ later.req.cookie \in IssuedCookies
  /\ later.req.cookie.num <= out.at
  /\ later.at - later.req.cookie.num <= sevenDaysMs

\* C11: logout revokes nothing on the server: the step that answers POST
\* /admin/logout changes neither the records, nor the counters, nor the
\* secret; its answer is a 302 to /admin/login whose Set-Cookie clears the
\* cookie and issues none; and a request that arrives after a logout with a
\* cookie issued before it is let through the gate as long as the cookie is
\* at most seven days old.
C11_LogoutRevokesNothing ==
  [][\A p \in Procs :
       /\ (rq[p].pc = "idle" /\ rq'[p].pc # "idle" /\ IsLogout(rq'[p].req)) =>
            /\ <<kvUrls, kvRate, API_SECRET, issued>>' =
                 <<kvUrls, kvRate, API_SECRET, issued>>
            /\ rq'[p].pc = "done"
            /\ rq'[p].inner.status = 302
            /\ rq'[p].inner.location = U_login
            /\ rq'[p].inner.clearCookie
            /\ rq'[p].inner.setCookie = NoCookie
       /\ \A q \in Procs :
            AfterLogout(rq'[p], rq'[q]) => ~Refused(rq'[q])]_vars

\* after a logout, the admin page has been served to a request whose
\* cookie, issued before the logout, was exactly seven days old
C11_Witness ==
  \E p, q \in Procs :
    /\ AfterLogout(rq[p], rq[q])
    /\ rq[q].at - rq[q].req.cookie.num = sevenDaysMs
    /\ rq[q].inner.status = 200
    /\ rq[q].inner.kind = "admin-page"

\* the admin HTML routes: /admin, /admin/edit/{slug}, /admin/create,
\* /admin/update/{slug}, /admin/delete/{slug}
HtmlRoute(request) ==
  \/ request.path = P_admin
  \/ StartsWith(request.path, P_admin_edit_)
  \/ request.path = P_admin_create
  \/ StartsWith(request.path, P_admin_update_)
  \/ StartsWith(request.path, P_admin_delete_)

\* the JSON API routes under /admin/urls
ApiRoute(request) == StartsWith(request.path, P_admin_urls)

ValidBearer(request) == request.auth = <<"Bearer", API_SECRET>>

\* C12: with a secret configured, a request to an admin HTML route that
\* carries a valid bearer token but no valid session cookie is answered at
\* once with a 302 to /admin/login, before any read or write of the
\* records; a request to a JSON API route under /admin/urls passes the gate
\* when it carries a valid cookie or a valid bearer token, and only then.
C12_HtmlCookieOnlyApiEither ==
  [][\A p \in Procs :
       (API_SECRET # "" /\ rq[p].pc = "idle" /\ rq'[p].pc # "idle") =>
         LET request == rq'[p].req
         IN /\ (/\ HtmlRoute(request)
                /\ ValidBearer(request)
                /\ ~ValidSession(request.cookie, now)) =>
                 /\ rq'[p].pc = "done"
                 /\ rq'[p].inner.status = 302
                 /\ rq'[p].inner.location = U_login
                 /\ kvUrls' = kvUrls
            /\ ApiRoute(request) =>
                 (HasCredential(request, now) <=> ~Refused(rq'[p]))]_vars

\* a form post to delete S_abc with the secret as bearer token and no
\* cookie has been sent to the login page, and the record is still there
C12_Witness ==
  /\ rq[1].pc = "done"
  /\ rq[1].req = WithCred(FormDelete(S_abc), Bearer)
  /\ rq[1].inner.status = 302
  /\ rq[1].inner.location = U_login
  /\ getURL(S_abc) = R_abc

\* a login request
IsLogin(request) ==
  request.path = P_admin_login /\ request.method = "POST"

\* the answer that issues a session cookie: 302 to /admin with Set-Cookie
\* url_shortener_session=<t>.<HMAC(t, secret)> for the current time t
IssuesCookie(response, t) ==
  /\ response.status = 302
  /\ response.location = U_adminPage
  /\ response.setCookie = signSessionCookie(t, API_SECRET)
  /\ ~response.clearCookie

\* the login form rendered again with an error, and no Set-Cookie
FormWithError(response) ==
  /\ response.status = 200
  /\ response.kind = "login-form"
  /\ response.error # ""
  /\ response.setCookie = NoCookie
  /\ ~response.clearCookie

\* C13: with a secret configured, POST /admin/login is answered 302 to
\* /admin with a session cookie for the current time if and only if the
\* submitted password equals the secret; with a missing or wrong password
\* the answer is the login form with an error and no cookie.
C13_LoginIssuesCookieIff ==
  [][\A p \in Procs :
       (/\ API_SECRET # ""
        /\ rq[p].pc = "idle" /\ rq'[p].pc # "idle"
        /\ IsLogin(rq'[p].req)) =>
         /\ rq'[p].pc = "done"
         /\ IF rq'[p].req.password = API_SECRET
            THEN IssuesCookie(rq'[p].inner, now)
            ELSE FormWithError(rq'[p].inner)
         /\ kvUrls' = kvUrls]_vars

\* a login with the secret at the end of the first session's life has
\* been answered with a new cookie: two cookies are out
C13_Witness ==
  /\ rq[1].pc = "done"
  /\ IsLogin(rq[1].req)
  /\ rq[1].req.password = Secret
  /\ rq[1].inner.setCookie.present
  /\ rq[1].at >= sevenDaysMs
  /\ issued = {0, rq[1].at}

\* a delete request that has been answered with success
Deleted(r) ==
  /\ r.pc = "done"
  /\ r.inner.op = "delete"
  /\ r.inner.status = 200
  /\ r.inner.slug \in StoreKeys

\* C14: delete is terminal, whatever the interleaving: once a delete of
\* slug s has been answered with success, and no create has been issued
\* (here: the only other request issued so far is an update under way),
\* no record is stored for s.
C14_DeleteTerminal ==
  \A p, q \in Procs :
    (/\ p # q
     /\ reqs = 2
     /\ Deleted(rq[p])
     /\ rq[q].pc # "idle"
     /\ AdminOp(rq[q].req) = "update") =>
      getURL(rq[p].inner.slug) = NoRecord

\* the step is a call of the storage function `op` that returned
StoreCall(op) ==
  /\ rq[1].pc = "idle"
  /\ rq'[1].pc = "done"
  /\ rq'[1].op = op
  /\ rq'[1].inner.error = ""

\* C15: updateURL(slug, partialFields) on an existing record keeps the
\* record's slug and created whatever partialFields holds, a slug or a
\* created of its own included, takes url and metadata from partialFields
\* where it gives them and from the record where not, and sets updated to
\* the current time.
C15_UpdateKeepsSlugAndCreated ==
  [][StoreCall("updateURL") =>
       LET slug == rq'[1].slug
           updates == rq'[1].record
           existing == rq'[1].existing
           updated == getURLOf(kvUrls', slug)
       IN /\ updated.slug = existing.slug
          /\ updated.created = existing.created
          /\ updated.updated = now
          /\ \A f \in {"url", "metadata"} :
               updated[f] = IF f \in DOMAIN updates THEN updates[f]
                            ELSE existing[f]]_vars

\* the invocation has been answered 404 "URL not found"
NotFound(r) ==
  /\ r.pc = "done"
  /\ r.inner.status = 404
  /\ r.inner.error = "URL not found"

\* C16: in a sequential execution, when an authenticated PUT (carrying a
\* url) or DELETE on /admin/urls/{slug} reaches the lookup of its slug and
\* no record is stored under it, the request is answered 404 "URL not
\* found" and the store is left as it was, without a record for the slug:
\* an update never creates one. A DELETE answered with success leaves no
\* record under its slug, so that a second DELETE of the same slug in
\* sequence is answered 404.
C16_AbsentSlugNotFound ==
  [][\A p \in Procs :
       /\ (/\ rq[p].pc \in {"u_get", "d_get"}
           /\ rq[p].surface = "api"
           /\ getURL(rq[p].slug) = NoRecord
           /\ rq'[p] # rq[p]) =>
            /\ HasCredential(rq[p].req, rq[p].at)
            /\ ApiRoute(rq[p].req)
            /\ AdminOp(rq[p].req) \in {"update", "delete"}
            /\ NotFound(rq'[p])
            /\ kvUrls' = kvUrls
            /\ getURLOf(kvUrls', rq[p].slug) = NoRecord
       /\ (/\ rq[p].pc = "d_del"
           /\ rq[p].surface = "api"
           /\ rq'[p] # rq[p]) =>
            getURLOf(kvUrls', rq[p].slug) = NoRecord]_vars

\* the second of two requests, a DELETE of the slug abc after a request
\* that changed the records, has been answered 404 and no record is stored
\* under abc
C16_Witness ==
  /\ reqs = 2
  /\ \E ip \in ClientIPs : processed[ip] = 1
  /\ NotFound(rq[1])
  /\ AdminOp(rq[1].req) = "delete"
  /\ ApiRoute(rq[1].req)
  /\ AdminSlug(rq[1].req) = S_abc
  /\ getURL(S_abc) = NoRecord

\* C17: deleteURL returns without an error whatever the store holds; called
\* for a slug with no entry it leaves the store as it was; after it has
\* returned there is no entry under the slug, and deleting the slug once
\* more would leave the store as the first deletion left it.
C17_DeleteIdempotent ==
  [][(rq[1].pc = "idle" /\ rq'[1].pc = "done" /\ rq'[1].op = "deleteURL") =>
       LET slug == rq'[1].slug
       IN /\ rq'[1].inner.error = ""
          /\ kvUrls[slug] = NoEntry => kvUrls' = kvUrls
          /\ kvUrls'[slug] = NoEntry
          /\ getURLOf(kvUrls', slug) = NoRecord
          /\ \A k \in DOMAIN kvUrls : k # slug => kvUrls'[k] = kvUrls[k]
          /\ deleteURL(kvUrls', slug) = kvUrls']_vars

\* the first call of a run is deleteURL for bigred, a slug the store never
\* held, and it has returned without an error with the record abc still
\* stored
C17_Witness ==
  /\ reqs = 1
  /\ rq[1].pc = "done"
  /\ rq[1].op = "deleteURL"
  /\ rq[1].slug = S_bigred
  /\ rq[1].inner.error = ""
  /\ getURL(S_abc) = R_abc
  /\ getURL(S_bigred) = NoRecord

\* C18: right after storeURL(r) has returned, getURL(r.slug) gives a record
\* equal to r in every field, whatever was stored under the slug before;
\* getURL of a slug with no entry, or with an entry that JSON.parse
\* rejects, returns null without an error.
C18_StoreGetRoundTrip ==
  [][/\ StoreCall("storeURL") =>
          /\ getURLOf(kvUrls', rq'[1].slug) = rq'[1].record
          /\ rq'[1].record.slug = rq'[1].slug
     /\ (rq[1].pc = "idle" /\ rq'[1].pc = "done" /\ rq'[1].op = "getURL") =>
          /\ rq'[1].inner.error = ""
          /\ kvUrls' = kvUrls
          /\ (\/ rq'[1].slug \notin DOMAIN kvUrls
              \/ kvUrls[rq'[1].slug] \in {NoEntry, Malformed}) =>
               rq'[1].record = NoRecord]_vars

\* storeURL has returned after storing, over a malformed entry, a record
\* that carries metadata, and the stored text is the one a getURL reads
\* the record back from
C18_Witness ==
  /\ rq[1].pc = "done"
  /\ rq[1].op = "storeURL"
  /\ rq[1].slug = S_apis
  /\ rq[1].record.metadata = "page"
  /\ rq[1].record.created > 0
  /\ kvUrls[S_apis] = JSONstringify(rq[1].record)
  /\ getURL(S_apis) = rq[1].record
  /\ getURL(S_bigred) = NoRecord

\* the entry under key k holds a record: it has data and JSON.parse
\* accepts it
Deserializes(kv, k) == kv[k] # NoEntry /\ JSONparse(kv[k]).ok

DangerousCreate(request) ==
  /\ ApiRoute(request)
  /\ AdminOp(request) = "create"
  /\ request.url # NoURL
  /\ LowerTok(request.url.scheme) \in dangerousProtocols

\* C20: an authenticated create request, admitted by the rate limiter,
\* whose url has a dangerous scheme (javascript, data, vbscript, file),
\* such as "javascript:alert(1)", is answered 400 with the error "URL
\* contains dangerous content", and the step that answers it writes no
\* record.
C20_DangerousSchemeRejected ==
  [][\A p \in Procs :
       (/\ rq[p].pc # "done"
        /\ rq'[p].pc = "done"
        /\ DangerousCreate(rq'[p].req)
        /\ HasCredential(rq'[p].req, rq'[p].at)
        /\ rq'[p].inner.status # 429) =>
         /\ rq'[p].inner.status = 400
         /\ rq'[p].inner.error = "URL contains dangerous content"
         /\ kvUrls' = kvUrls]_vars

\* the body of the create request fails validation: it is not JSON, has no
\* url, has a url that is not a valid http(s) URL once normalised, or has a
\* slug of a bad format
InvalidCreate(request) ==
  \/ ~request.json
  \/ request.url = NoURL
  \/ ~isValidURL(normalizeURL(request.url))
  \/ request.slug # <<>> /\ ~isValidCustomSlug(toLowerCase(request.slug))

\* C21: an authenticated POST /admin/urls, admitted by the rate limiter,
\* whose body is not JSON, lacks the url, or has a url or a slug of a bad
\* format, is answered 400 with an error text and writes no record; a
\* validation failure is never answered 500.
C21_ValidationErrors400 ==
  [][\A p \in Procs :
       (/\ rq[p].pc # "done"
        /\ rq'[p].pc = "done"
        /\ ApiRoute(rq'[p].req)
        /\ AdminOp(rq'[p].req) = "create"
        /\ InvalidCreate(rq'[p].req)
        /\ HasCredential(rq'[p].req, rq'[p].at)
        /\ rq'[p].inner.status # 429) =>
         /\ rq'[p].inner.status = 400
         /\ rq'[p].inner.error # ""
         /\ kvUrls' = kvUrls]_vars

\* the outcomes of the outbound fetch that are failures
FetchFailures == {"non2xx", "error", "abort", "reset"}

\* the handler has its response, with the given status
Responded(r, status) ==
  /\ r.pc = IF r.surface = "form" THEN "f_list" ELSE "done"
  /\ r.inner.status = status

\* C22: in a sequential execution, a create or update that has passed
\* validation is not failed by the metadata fetch: whether the remote site
\* answers 2xx, answers another status, the connection fails, the abort
\* timer fires or the body breaks off, fetchPageMetadata hands a value to
\* the handler, which goes on to store the record and to answer 201
\* (create) or 200 (update); after a failure the metadata stored is the
\* empty object.
C22_MetadataFailureAbsorbed ==
  [][\A p \in Procs :
       /\ (rq[p].pc \in {"c_meta", "c_text"} /\ rq'[p] # rq[p]) =>
            /\ rq'[p].pc \in {"c_text", "c_store"}
            /\ (rq'[p].pc = "c_store" /\ rq'[p].remote \in FetchFailures) =>
                 rq'[p].record.metadata = "empty"
       /\ (rq[p].pc \in {"u_meta", "u_text"} /\ rq'[p] # rq[p]) =>
            /\ rq'[p].pc \in {"u_text", "u_upd_get"}
            /\ (rq'[p].pc = "u_upd_get"
                  /\ rq'[p].remote \in FetchFailures) =>
                 rq'[p].metadata = "empty"
       /\ (rq[p].pc = "c_store" /\ rq'[p] # rq[p]) =>
            /\ Responded(rq'[p], 201)
            /\ getURLOf(kvUrls', rq[p].slug) = rq[p].record
       /\ (rq[p].pc = "u_upd_get" /\ rq'[p] # rq[p]) =>
            rq'[p].pc = "u_upd_put"
       /\ (rq[p].pc = "u_upd_put" /\ rq'[p] # rq[p]) =>
            /\ rq'[p].pc = "u_reget"
            /\ getURLOf(kvUrls', rq[p].slug).url = rq[p].url
            /\ getURLOf(kvUrls', rq[p].slug).metadata = rq[p].metadata
       /\ (rq[p].pc = "u_reget" /\ rq'[p] # rq[p]) =>
            Responded(rq'[p], 200)]_vars

\* a create sent through the form has been answered 201 after the abort
\* timer fired on a site that did not answer, and the record stored has
\* the empty object as metadata
C22_Witness ==
  /\ rq[1].pc = "f_list"
  /\ rq[1].op = "create"
  /\ rq[1].inner.status = 201
  /\ rq[1].remote = "abort"
  /\ getURL(rq[1].slug) = rq[1].record
  /\ getURL(rq[1].slug).metadata = "empty"

\* ------------------------------------------------ metadata fetch, liveness
\* Creates and updates by the owner, one request at a time. A continuation
\* runs once the promise it awaits has settled: every step that is enabled
\* is taken in the end (the KV namespace answers, the remote site answers
\* or the abort timer fires); a step that is not enabled, such as the end
\* of a body that never ends, is not.
MetaSpecRequests ==
  {WithCred(q, Bearer) :
     q \in {ApiCreate(U_example, S_apis), ApiCreate(U_bare, S_abc),
            ApiUpdate(S_abc, U_bare), ApiUpdate(S_abc, U_example)}}

MetaInit == InitOf({Secret}, {FALSE}, BOOLEAN, {TRUE})

MetaStep ==
  \/ RateGet(1)
  \/ RatePut(1)
  \/ CreateExists(1)
  \/ CreateMeta(1)
  \/ CreateText(1)
  \/ CreateStore(1)
  \/ UpdateGet(1)
  \/ UpdateMeta(1)
  \/ UpdateText(1)
  \/ UpdateURLGet(1)
  \/ UpdateURLPut(1)
  \/ UpdateReget(1)

MetaNext ==
  \/ \E request \in MetaSpecRequests : Receive(1, request, MaxRequests)
  \/ MetaStep
  \/ Close(1)

MetaSpec == MetaInit /\ [][MetaNext]_vars /\ WF_vars(MetaStep)

\* the invocation is inside fetchPageMetadata
InFetch(r) == r.pc \in {"c_meta", "c_text", "u_meta", "u_text"}

\* C23: fetchPageMetadata always returns, whatever the remote site does: an
\* invocation that has entered it leaves it in the end, so that the create
\* or update request completes.
C23_MetadataFetchReturns == InFetch(rq[1]) ~> (rq[1].pc = "done")

\* the JSON API request that corresponds to a form post: the same url and
\* slug, on POST /admin/urls, PUT or DELETE /admin/urls/{slug}, with the
\* secret as bearer token
ApiTwin(request) ==
  LET op == AdminOp(request)
      twin == IF op = "create" THEN ApiCreate(request.url, request.slug)
              ELSE IF op = "update"
              THEN ApiUpdate(Substring(request.path, Len(P_admin_update_)),
                             request.url)
              ELSE ApiDelete(Substring(request.path, Len(P_admin_delete_)))
  IN [WithCred(twin, Bearer) EXCEPT !.ip = request.ip]

\* the rate limiter would admit one more admin API request of the client
\* at this instant
LimiterAdmits(ip) ==
  \A data \in KVGetRate(<<"admin", ip>>) :
    \/ data = NoRate
    \/ data.resetTime < now
    \/ isAllowed([data EXCEPT !.count = @ + 1], ADMIN_LIMIT)

\* a form post that asks for a create, update or delete
FormMutation(request) ==
  /\ HtmlRoute(request)
  /\ request.method = "POST"
  /\ AdminOp(request) \in Mutations

\* C24: the form routes have no logic of their own. When an authenticated
\* form post for a create, update or delete arrives, it is handled as the
\* corresponding JSON API request would be in the same state: answered
\* with the API's error when the API request would be turned away (by the
\* rate limiter or by the handler's validation), and otherwise taken to
\* the same position of the same handler with the same slug and url, so
\* that the store ends up the same. The page that answers the form post
\* carries a success banner when the handler's response was 2xx and an
\* error banner with the handler's error text otherwise, and making it
\* writes nothing.
C24_FormEqualsApi ==
  [][\A p \in Procs :
       /\ (/\ rq[p].pc = "idle"
           /\ rq'[p].pc # "idle"
           /\ FormMutation(rq'[p].req)
           /\ ValidSession(rq'[p].req.cookie, now)) =>
            LET form == rq'[p]
                limiter == handleAdminRequest(ApiTwin(form.req))
                api == apiEndpoints(limiter)
            IN /\ limiter.pc = "rl_get"
               /\ IF ~LimiterAdmits(limiter.ip)
                  THEN /\ form.pc = "f_list"
                       /\ form.inner.status = 429
                  ELSE IF api.pc = "done"
                  THEN /\ form.pc = "f_list"
                       /\ form.inner = api.inner
                  ELSE /\ form.pc = api.pc
                       /\ form.op = api.op
                       /\ form.slug = api.slug
                       /\ form.url = api.url
       /\ (rq[p].pc = "f_list" /\ rq'[p] # rq[p]) =>
            /\ rq'[p].pc = "done"
            /\ rq'[p].inner.kind = "admin-page"
            /\ kvUrls' = kvUrls
            /\ IF rq[p].inner.status \in 200..299
               THEN rq'[p].inner.message = "success"
               ELSE /\ rq'[p].inner.message = "error"
                    /\ rq'[p].inner.error = rq[p].inner.error]_vars

\* ------------------------------------------ the validators called directly
\* isValidCustomSlug and isDangerousURL applied to inputs of the caller's
\* choice, as the unit tests do.
SlugAlphabet == {"a", "-", "Z", "_"}

\* 'a'.repeat(n)
Repeat(n) == [i \in 1..n |-> "a"]

SlugInputs ==
  UNION {[1..n -> SlugAlphabet] : n \in 0..MaxSlugLen}
    \cup reserved
    \cup {<<"A", "P", "I">>, <<"a", "p", "i", "s">>, <<"a", "1", "-", "b">>,
          <<"a", " ", "b">>, Repeat(50), Repeat(51),
          Repeat(49) \o <<"-">>}

HostInputs ==
  {<<"localhost">>, <<"LOCALHOST">>,
   <<"127", ".", "0", ".", "0", ".", "1">>,
   <<"[", ":", ":", "1", "]">>,
   <<"10", ".", "0", ".", "0", ".", "1">>,
   <<"172", ".", "16", ".", "0", ".", "1">>,
   <<"172", ".", "31", ".", "0", ".", "1">>,
   <<"172", ".", "32", ".", "0", ".", "1">>,
   <<"192", ".", "168", ".", "1", ".", "1">>,
   <<"169", ".", "254", ".", "1", ".", "1">>,
   <<"[", "fc00", ":", ":", "1", "]">>,
   <<"[", "fe80", ":", ":", "1", "]">>,
   <<"example", ".", "com">>}

URLInputs ==
  {[ws |-> FALSE, scheme |-> scheme, slashes |-> TRUE, host |-> host,
    port |-> port, path |-> <<"/">>] :
     scheme \in {"http", "https"}, host \in HostInputs,
     port \in {"", "3000"}}
    \cup {[U_javascript EXCEPT !.scheme = scheme] :
            scheme \in dangerousProtocols \ {"file"}}
    \cup {[ws |-> FALSE, scheme |-> "file", slashes |-> TRUE, host |-> <<>>,
           port |-> "", path |-> <<"/etc/passwd">>],
          U_example, U_spaces, NoURL}

\* the function `op` has returned `result` for the slug or the url it was
\* given
Evaluated(op, slug, url, result) ==
  rq' = [rq EXCEPT ![1] =
           [IdleRq EXCEPT !.pc = "done", !.op = op, !.slug = slug,
                          !.url = url, !.at = now,
                          !.inner = [NoResp EXCEPT !.op = op,
                                                   !.body = <<result>>]]]

CallIsValidCustomSlug ==
  /\ \E slug \in SlugInputs :
       Evaluated("isValidCustomSlug", slug, NoURL, isValidCustomSlug(slug))
  /\ UNCHANGED kvUrls
  /\ StoreFrame

CallIsDangerousURL ==
  /\ \E url \in URLInputs :
       Evaluated("isDangerousURL", <<>>, url, isDangerousURL(url))
  /\ UNCHANGED kvUrls
  /\ StoreFrame

UnitInit == InitOf({Secret}, {FALSE}, {FALSE}, {FALSE})

UnitNext ==
  \/ CallIsValidCustomSlug
  \/ CallIsDangerousURL
  \/ Close(1)

UnitSpec == UnitInit /\ [][UnitNext]_vars

\* the function `op` has returned; its value is rq[1].inner.body[1]
Evaluation(op) == rq[1].pc = "done" /\ rq[1].op = op

\* C25: isValidCustomSlug(s) is true exactly when s has 3 to 50 characters,
\* all of them among a-z, 0-9 and the hyphen, neither the first nor the
\* last is a hyphen, no two hyphens are adjacent, and s is none of the
\* reserved words admin, api, health, status, backup; it is false for every
\* other text.
C25_SlugValidation ==
  Evaluation("isValidCustomSlug") =>
    LET s == rq[1].slug
    IN rq[1].inner.body[1] =
         (/\ Len(s) \in 3..50
          /\ \A i \in 1..Len(s) : s[i] \in SlugChars
          /\ s[1] # "-"
          /\ s[Len(s)] # "-"
          /\ \A i \in 1..(Len(s) - 1) : ~(s[i] = "-" /\ s[i + 1] = "-")
          /\ s \notin {<<"a", "d", "m", "i", "n">>, <<"a", "p", "i">>,
                       <<"h", "e", "a", "l", "t", "h">>,
                       <<"s", "t", "a", "t", "u", "s">>,
                       <<"b", "a", "c", "k", "u", "p">>})

\* isValidCustomSlug has returned true for a slug of fifty characters
C25_Witness ==
  /\ Evaluation("isValidCustomSlug")
  /\ Len(rq[1].slug) = 50
  /\ rq[1].inner.body[1] = TRUE

\* C26: isDangerousURL(url) is true for every input the URL parser
\* rejects, for every URL whose scheme is javascript, data, vbscript or
\* file, and for every URL whose host is localhost, 127.0.0.1 or ::1 or
\* lies in 10.0.0.0/8, 172.16.0.0/12, 192.168.0.0/16, 169.254.0.0/16,
\* fc00::/7 or fe80::/10; it is false for https://example.com.
C26_DangerousURLDetection ==
  Evaluation("isDangerousURL") =>
    LET parsed == ParseURL(rq[1].url)
        result == rq[1].inner.body[1]
    IN /\ ~parsed.ok => result
       /\ (parsed.ok /\ parsed.protocol \in {"javascript", "data",
                                             "vbscript", "file"}) => result
       /\ (parsed.ok /\ PrivateHost(parsed.hostname)) => result
       /\ rq[1].url = U_example => ~result

\* C27: the existence check of handleCreateURL reserves nothing and its
\* write is unconditional: a create that finds the slug free leaves the
\* store as it is, and every create that reaches storeURL answers 201 and
\* leaves its own record under the slug, whatever was written there since
\* its check. So two concurrent creates of one custom slug can both pass
\* the check, both write and both answer 201, the later write surviving.
C27_ConcurrentCreateLastWriteWins ==
  [][\A p \in Procs :
       /\ (rq[p].pc = "c_exists" /\ rq'[p].pc = "c_meta")
            => /\ getURL(rq[p].slug) = NoRecord
               /\ kvUrls' = kvUrls
       /\ (rq[p].pc = "c_store" /\ rq'[p] # rq[p])
            => /\ rq'[p].pc \in {"done", "f_list"}
               /\ rq'[p].inner.status = 201
               /\ rq'[p].inner.body = <<rq[p].record>>
               /\ getURLOf(kvUrls', rq[p].slug) = rq[p].record]_vars

\* both creates of "abc" have answered 201 with different records, and the
\* store holds the record of the second invocation, not that of the first
C27_Witness ==
  /\ \A p \in Procs : /\ rq[p].pc = "done"
                       /\ rq[p].req.slug = S_abc
                       /\ rq[p].inner.op = "create"
                       /\ rq[p].inner.status = 201
  /\ rq[1].inner.body # rq[2].inner.body
  /\ <<getURL(S_abc)>> = rq[2].inner.body

\* two clients' worth of requests from one address, handled concurrently,
\* with the counters of that address one short of their limits or unset
ConcurrentRateInit == InitOf({Secret}, BOOLEAN, {TRUE}, {TRUE})

ConcurrentRateNext ==
  \/ \E p \in Procs, request \in RateSpecRequests :
       Receive(p, request, MaxRequests)
  \/ \E p \in Procs : \/ RateGet(p)
                       \/ RatePut(p)
                       \/ RedirectGet(p)
                       \/ Close(p)

ConcurrentRateSpec == ConcurrentRateInit /\ [][ConcurrentRateNext]_vars

\* C28: checkRateLimit reads the counter and writes it back in two steps
\* with nothing to make them atomic: the read leaves the store alone, and
\* the write stores the count computed from the call's own read (one more
\* than the count it read, or 1) and admits the request on that count,
\* whatever other calls have stored in between. So two interleaved calls
\* on one key can read the same count, the stored count rises by one for
\* the two of them, and more than `limit` requests pass in a window.
C28_RateLimitLostUpdate ==
  [][\A p \in Procs :
       LET key == <<rq[p].purpose, rq[p].ip>>
       IN /\ (rq[p].pc = "rl_get" /\ rq'[p].pc = "rl_put")
               => /\ kvRate' = kvRate
                  /\ rq'[p].rateLimitInfo.count \in
                       {1} \cup (IF kvRate[key] = NoRate THEN {}
                                 ELSE {kvRate[key].count + 1})
          /\ (rq[p].pc = "rl_put" /\ rq'[p].pc # "rl_put")
               => /\ kvRate'[key].count = rq[p].rateLimitInfo.count
                  /\ (rq'[p].pc = "done" /\ rq'[p].inner.status = 429)
                       <=> rq[p].rateLimitInfo.count > rq[p].limit]_vars

\* 59 lookups had been counted in the window; two more came together, both
\* were let through to the redirect, and the counter stands at 60: 61
\* lookups have passed in one window under a limit of 60
C28_Witness ==
  /\ \A p \in Procs : /\ rq[p].pc = "done"
                       /\ rq[p].req = Get(<<"/">> \o S_abc, <<"Mozilla">>)
                       /\ rq[p].inner.status \in {301, 302}
  /\ calls[<<"redirect", ClientIP>>].n = REDIRECT_LIMIT + 1
  /\ kvRate[<<"redirect", ClientIP>>].count = REDIRECT_LIMIT

\* the redirect counter of the client of invocation 1
RedirectKey == <<"redirect", rq[1].ip>>

\* C29: the slug lookup validates the format, then counts the request,
\* then reads the record, then branches on the crawler test. A request
\* whose slug fails validation is answered 400 at once and the rate
\* counters stay as they are; a request with a well-formed slug goes to
\* the rate limiter before anything is read, and the limiter writes the
\* client's counter (one more than before while the window is open, 1 for
\* a new window) and answers 429 when the count exceeds the limit, in
\* both cases whether or not the slug has a record; only a request let
\* through reaches the lookup, which answers 404 without a record, the
\* preview page to a crawler and 301 otherwise.
C29_RedirectPathOrder ==
  [][/\ (rq[1].pc = "idle" /\ rq'[1].pc # "idle" /\ SlugRoute(rq'[1].req))
        => LET slug == PathSlug(rq'[1].req)
           IN /\ kvRate' = kvRate
              /\ IF slug = <<>> \/ ~isValidCustomSlug(slug)
                 THEN rq'[1].pc = "done" /\ rq'[1].inner.status = 400
                 ELSE rq'[1].pc = "rl_get" /\ rq'[1].purpose = "redirect"
     /\ (rq[1].purpose = "redirect" /\ rq[1].pc = "rl_get"
           /\ rq'[1] # rq[1])
        => rq'[1].pc = "rl_put" /\ kvRate' = kvRate
     /\ (rq[1].purpose = "redirect" /\ rq[1].pc = "rl_put"
           /\ rq'[1] # rq[1])
        => LET old == kvRate[RedirectKey]
               new == kvRate'[RedirectKey]
           IN /\ new.count \in {1} \cup (IF old = NoRate THEN {}
                                         ELSE {old.count + 1})
              /\ (old # NoRate /\ now < old.resetTime)
                   => new.count = old.count + 1
              /\ IF new.count > REDIRECT_LIMIT
                 THEN rq'[1].pc = "done" /\ rq'[1].inner.status = 429
                 ELSE rq'[1].pc = "r_get"
     /\ (rq[1].pc = "r_get" /\ rq'[1] # rq[1])
        => /\ kvRate' = kvRate
           /\ rq'[1].pc = "done"
           /\ rq'[1].inner.status =
                IF getURL(rq[1].slug) = NoRecord THEN 404
                ELSE IF isSocialMediaCrawler(rq[1].req.ua) THEN 200
                ELSE 301]_vars

\* a client over its limit has been answered 429 on a well-formed slug
\* that has no record, and the request was counted
C29_Witness ==
  /\ rq[1].pc = "done"
  /\ rq[1].req.path = <<"/">> \o S_bigred
  /\ getURL(S_bigred) = NoRecord
  /\ rq[1].inner.status = 429
  /\ kvRate[<<"redirect", ClientIP>>].count = REDIRECT_LIMIT + 1

\* C30: under /admin/urls authentication comes before rate limiting. A
\* request that carries neither a session cookie the authenticator
\* accepts nor the secret as bearer token is answered at once, with 401
\* or with the redirect to the login page, and no rate counter changes;
\* an admin rate counter changes only in a step of an invocation whose
\* request carried such a credential and came from the counter's address.
C30_AuthBeforeRateLimit ==
  [][/\ \A p \in Procs :
          (/\ rq[p].pc = "idle" /\ rq'[p].pc # "idle"
           /\ StartsWith(rq'[p].req.path, P_admin_urls)
           /\ ~HasCredential(rq'[p].req, now))
            => /\ Refused(rq'[p])
               /\ kvRate' = kvRate
     /\ \A ip \in ClientIPs :
          kvRate'[<<"admin", ip>>] # kvRate[<<"admin", ip>>]
            => \E p \in Procs : /\ rq[p].pc = "rl_put"
                                /\ rq[p].purpose = "admin"
                                /\ rq[p].ip = ip
                                /\ rq'[p] # rq[p]
                                /\ HasCredential(rq[p].req, rq[p].at)]_vars

\* after one counted API request of the owner, a POST to /admin/urls
\* without any credential has been answered 401, and the counter of the
\* address still stands at 1
C30_Witness ==
  /\ rq[1].pc = "done"
  /\ rq[1].req.path = P_admin_urls
  /\ rq[1].req.method = "POST"
  /\ rq[1].req.ip = ClientIP
  /\ ~rq[1].req.cookie.present
  /\ rq[1].req.auth = <<>>
  /\ rq[1].inner.status = 401
  /\ reqs = 2
  /\ kvRate[<<"admin", ClientIP>>] # NoRate
  /\ kvRate[<<"admin", ClientIP>>].count = 1

\* the rate key of the surface a request arrives on: redirect:{ip} for a
\* slug lookup, admin:{ip} for the admin API
SurfaceKey(request) ==
  <<IF SlugRoute(request) THEN "redirect" ELSE "admin",
    IF request.ip = "" THEN "unknown" ELSE request.ip>>

\* C31: redirect and admin traffic use independent counters. A rate entry
\* changes only in a step of an invocation whose request came in on the
\* surface of that entry (a slug lookup for rate:redirect:{ip}, a request
\* under /admin/urls for rate:admin:{ip}) from that address, and a request
\* is denied with 429 only when the counter of its own surface exceeds the
\* limit of that surface; the state of the other counter plays no part.
C31_IndependentCounters ==
  [][/\ \A k \in RateKeys :
          kvRate'[k] # kvRate[k]
            => \E p \in Procs :
                 /\ Busy(p) /\ rq'[p] # rq[p]
                 /\ \/ SlugRoute(rq[p].req)
                    \/ StartsWith(rq[p].req.path, P_admin_urls)
                 /\ k = SurfaceKey(rq[p].req)
     /\ \A p \in Procs :
          (Busy(p) /\ rq'[p].pc = "done" /\ rq'[p].inner.status = 429)
            => LET k == SurfaceKey(rq[p].req)
               IN kvRate'[k].count >
                    (IF k[1] = "redirect" THEN REDIRECT_LIMIT
                     ELSE ADMIN_LIMIT)]_vars

\* the client's redirect limit is exhausted (count 61 in the open window)
\* and its request on the admin API has been let through, counted as the
\* 50th in the admin window
C31_Witness ==
  /\ rq[1].pc = "done"
  /\ rq[1].req.path = P_admin_urls
  /\ rq[1].inner.status # 429
  /\ kvRate[<<"redirect", ClientIP>>] # NoRate
  /\ kvRate[<<"redirect", ClientIP>>].count > REDIRECT_LIMIT
  /\ now < kvRate[<<"redirect", ClientIP>>].resetTime
  /\ kvRate[<<"admin", ClientIP>>].count = ADMIN_LIMIT

\* C32: a successful update, through PUT /admin/urls/{slug} or the form,
\* changes only the url, metadata and updated fields of the record of
\* that slug: the step of an update that writes the store leaves every
\* other entry as it was, and a record that was there before the write is
\* there after it with the same slug and created and with an updated that
\* is not earlier than the one it had.
C32_UpdateChangesOnlyItsFields ==
  [][\A p \in Procs :
       (rq[p].op = "update" /\ rq'[p] # rq[p] /\ kvUrls' # kvUrls) =>
         LET old == getURL(rq[p].slug)
             new == getURLOf(kvUrls', rq[p].slug)
         IN /\ \A k \in StoreKeys \ {rq[p].slug} : kvUrls'[k] = kvUrls[k]
            /\ old # NoRecord =>
                 /\ new # NoRecord
                 /\ new.slug = old.slug
                 /\ new.created = old.created
                 /\ new.updated >= old.updated]_vars

\* what fetchPageMetadata returned to invocation 1, from what the remote
\* site did: the fields of a page that arrived whole, {} otherwise
Fetched == IF rq[1].remote = "html" THEN "page" ELSE "empty"

\* C33: an update re-fetches the metadata only if the destination changed.
\* When the normalized new URL equals the stored url the handler goes on
\* to updateURL without an outbound fetch, and the write leaves the
\* metadata of the record as it was; when it differs the handler issues
\* one fetch (the position of the fetch is entered from the comparison
\* only and left by the fetch), and the write stores what that fetch
\* returned.
C33_RefetchOnlyOnChange ==
  [][/\ (rq[1].pc = "u_get" /\ rq'[1].pc \notin {"u_get", "done", "f_list"})
        => rq'[1].pc = IF normalizeURL(rq[1].req.url) = getURL(rq[1].slug).url
                       THEN "u_upd_get" ELSE "u_meta"
     /\ (rq'[1].pc = "u_meta" /\ rq'[1] # rq[1]) => rq[1].pc = "u_get"
     /\ (rq[1].pc = "u_meta" /\ rq'[1] # rq[1])
        => rq'[1].pc \in {"u_text", "u_upd_get"} /\ rq'[1].remote # ""
     /\ (rq[1].pc = "u_upd_put" /\ rq'[1] # rq[1])
        => LET old == getURL(rq[1].slug)
               new == getURLOf(kvUrls', rq[1].slug)
           IN /\ rq[1].remote = "" <=> new.url = old.url
              /\ new.metadata = IF rq[1].remote = "" THEN old.metadata
                                ELSE Fetched]_vars

\* an update of abc to the destination it already has was written without
\* a fetch, and the record still has the metadata of its creation
C33_Witness ==
  /\ rq[1].pc = "u_reget"
  /\ rq[1].slug = S_abc
  /\ rq[1].remote = ""
  /\ normalizeURL(rq[1].req.url) = R_abc.url
  /\ getURL(S_abc).metadata = R_abc.metadata

\* ------------------------------------------- generateUniqueSlug on its own
\* two words generateSlug() can return, values of Math.random() that give
\* the suffixes 0, 7 and 999, and the keys these slugs are stored under
S_calmfox == <<"c", "a", "l", "m", "-", "f", "o", "x">>
UnitCandidates == {S_bigred, S_calmfox}
UnitDraws == {0, 15, RandomScale - 1}
UnitKeys ==
  UnitCandidates \cup {WithSuffix(g, x) : g \in UnitCandidates, x \in UnitDraws}

\* any of these slugs may have been handed out before
SlugInit ==
  /\ now = 0
  /\ API_SECRET = Secret
  /\ \E taken \in SUBSET UnitKeys :
       kvUrls = [k \in UnitKeys |->
                   IF k \in taken THEN JSONstringify([R_abc EXCEPT !.slug = k])
                   ELSE NoEntry]
  /\ kvRate = [k \in RateKeys |-> NoRate]
  /\ calls = [k \in RateKeys |-> NoCalls]
  /\ processed = [ip \in ClientIPs |-> 0]
  /\ issued = {}
  /\ rq = [p \in Procs |-> IdleRq]
  /\ reqs = 0

\* generateUniqueSlug(env) is called: attempts = 0
CallGenerateUniqueSlug ==
  /\ rq[1].pc = "idle"
  /\ reqs < MaxRequests
  /\ rq' = [rq EXCEPT ![1] = [IdleRq EXCEPT !.pc = "c_gen",
                                            !.op = "generateUniqueSlug"]]
  /\ reqs' = reqs + 1
  /\ UNCHANGED <<now, API_SECRET, kvUrls, kvRate, issued, processed, calls>>

\* one turn of its loop
GenerateTurn ==
  /\ rq[1].pc = "c_gen"
  /\ generateUniqueSlugTurn(1, UnitCandidates, UnitDraws)
  /\ UNCHANGED <<kvUrls, processed>>
  /\ Frame

\* the function returns the slug to its caller
ReturnSlug ==
  /\ rq[1].pc = "c_meta"
  /\ Evaluated("generateUniqueSlug", rq[1].slug, NoURL, rq[1].slug)
  /\ UNCHANGED <<kvUrls, processed>>
  /\ Frame

SlugNext ==
  \/ CallGenerateUniqueSlug
  \/ GenerateTurn
  \/ ReturnSlug
  \/ Close(1)

SlugSpec == SlugInit /\ [][SlugNext]_vars

\* the numbers Math.floor(Math.random() * 1000) can be, as they are
\* written behind the hyphen
Suffixes == {ToString(n) : n \in 0..999}

\* generateUniqueSlug does at most 10 store lookups, one per turn; a
\* candidate found absent is returned at once, a collision before the
\* tenth goes on to the next turn, and after the tenth collision the
\* function returns base-n with n in 0..999, where base is the candidate
\* tried last (lastOnly) or any word generateSlug() can return
TurnsOfGenerateUniqueSlug(lastOnly) ==
  (rq[1].pc = "c_gen" /\ rq'[1] # rq[1]) =>
    LET tried == rq'[1].candidate
        lookups == rq[1].attempts + 1
    IN /\ lookups <= 10
       /\ IF getURL(tried) = NoRecord
          THEN rq'[1].pc = "c_meta" /\ rq'[1].slug = tried
          ELSE IF lookups < 10
          THEN rq'[1].pc = "c_gen" /\ rq'[1].attempts = lookups
          ELSE /\ rq'[1].pc = "c_meta"
               /\ \E base \in (IF lastOnly THEN {tried} ELSE UnitCandidates),
                     n \in Suffixes :
                    rq'[1].slug = base \o <<"-", n>>

\* C34 as stated: generateUniqueSlug terminates after at most 10 store
\* lookups; a candidate found absent is returned at once; after 10
\* consecutive collisions it returns the last candidate tried with a
\* random number 0-999 appended, without checking it against the store.
C34_FallbackOnLastCandidate == [][TurnsOfGenerateUniqueSlug(TRUE)]_vars

\* C34 amended: as above, but after 10 consecutive collisions the function
\* returns a newly generated candidate (which need not be the last one
\* tried) with a random number 0-999 appended, without checking it
\* against the store.
C34_FallbackOnFreshCandidate == [][TurnsOfGenerateUniqueSlug(FALSE)]_vars

\* after ten collisions, the last on big-red, the function has returned
\* calm-fox-7, built on another candidate, which the store already holds
C34_Witness ==
  /\ rq[1].pc = "c_meta"
  /\ rq[1].attempts = 10
  /\ rq[1].candidate = S_bigred
  /\ rq[1].slug = S_calmfox \o <<"-", "7">>
  /\ getURL(rq[1].slug) # NoRecord

\* C35: the rate limiter is a fixed window. A call that ends while the
\* window of its key is open (before the stored resetTime) stores the
\* count raised by one and the resetTime as it was, whether the call is
\* allowed or denied; a call made after the stored resetTime stores count
\* 1 with resetTime one window after the call and is allowed. So the
\* denied calls of a blocked client never extend its block, and its first
\* call after the original resetTime passes.
C35_FixedWindow ==
  [][\A p \in Procs :
       (rq[p].pc = "rl_put" /\ rq'[p].pc # "rl_put") =>
         LET key == <<rq[p].purpose, rq[p].ip>>
             old == kvRate[key]
             new == kvRate'[key]
             denied == rq'[p].pc = "done" /\ rq'[p].inner.status = 429
         IN old # NoRate =>
              /\ now < old.resetTime
                   => /\ new.count = old.count + 1
                      /\ new.resetTime = old.resetTime
                      /\ denied <=> new.count > rq[p].limit
              /\ rq[p].rlNow > old.resetTime
                   => /\ new.count = 1
                      /\ new.resetTime = rq[p].rlNow + rq[p].window
                      /\ ~denied]_vars

\* a blocked client has sent another lookup half a window later: it was
\* denied and counted (62), and the window still ends when it did
C35_Witness ==
  /\ rq[1].pc = "done"
  /\ rq[1].inner.status = 429
  /\ now > 0
  /\ kvRate[<<"redirect", ClientIP>>].count = REDIRECT_LIMIT + 2
  /\ kvRate[<<"redirect", ClientIP>>].resetTime = REDIRECT_WINDOW_MS

\* the window of the call site that writes a rate key
WindowOf(key) ==
  IF key[1] = "redirect" THEN REDIRECT_WINDOW_MS ELSE ADMIN_WINDOW_MS

\* C36: a rate counter is never removed by TTL expiry before its own
\* resetTime. Every stored counter expires no earlier than its resetTime;
\* every write sets the expiry at least one full window, and less than a
\* second more than one window, after the instant of the write, so a
\* counter that is written no more is gone after that time; and a call
\* that reads a key before the stored resetTime finds the counter and
\* counts on from it.
C36_ExpiryNotBeforeReset ==
  /\ [](\A key \in RateKeys :
          kvRate[key] # NoRate => kvRate[key].expireAt >= kvRate[key].resetTime)
  /\ [][/\ \A key \in RateKeys :
            kvRate'[key] # kvRate[key]
              => /\ kvRate'[key].expireAt >= now + WindowOf(key)
                 /\ kvRate'[key].expireAt < now + WindowOf(key) + 1000
        /\ \A p \in Procs :
            LET e == kvRate[<<rq[p].purpose, rq[p].ip>>]
            IN (/\ rq[p].pc = "rl_get" /\ rq'[p].pc = "rl_put"
                /\ e # NoRate /\ now < e.resetTime)
                 => rq'[p].rateLimitInfo.count = e.count + 1]_vars

\* a lookup counted in the middle of the open window: the counter keeps
\* its resetTime and now expires half a window after it
C36_Witness ==
  LET e == kvRate[<<"redirect", ClientIP>>]
  IN /\ e # NoRate
     /\ e.count = REDIRECT_LIMIT
     /\ e.resetTime = REDIRECT_WINDOW_MS
     /\ e.expireAt = e.resetTime + REDIRECT_WINDOW_MS \div 2

\* the four public routes that are no slug lookup
PlainRoute(request) ==
  request.path \in {P_health, P_status, P_all_json, P_root, <<>>}

\* the request invocation p is serving in this step
Serving(p) == IF rq[p].pc = "idle" THEN rq'[p].req ELSE rq[p].req

\* C37: public read routes never change URL records. No step of a request
\* for /{slug}, /all.json, /health, /status or / changes an entry urls:*,
\* whatever its outcome; a slug request writes no rate entry but
\* rate:redirect:{ip} of its client, and the other four routes write
\* nothing at all.
C37_PublicRoutesReadOnly ==
  [][\A p \in Procs :
       (rq'[p] # rq[p] /\ (PlainRoute(Serving(p)) \/ SlugRoute(Serving(p))))
         => /\ kvUrls' = kvUrls
            /\ PlainRoute(Serving(p)) => kvRate' = kvRate
            /\ \A k \in RateKeys :
                 kvRate'[k] # kvRate[k]
                   => k = <<"redirect", IF Serving(p).ip = "" THEN "unknown"
                                        ELSE Serving(p).ip>>]_vars

\* a crawler has been served the preview page of abc at a later instant:
\* the lookup was counted and the record is as it was stored
C37_Witness ==
  /\ rq[1].pc = "done"
  /\ rq[1].req.path = <<"/">> \o S_abc
  /\ rq[1].inner.status = 200
  /\ now > 0
  /\ kvRate[<<"redirect", ClientIP>>] # NoRate
  /\ kvRate[<<"redirect", ClientIP>>].expireAt > now
  /\ getURL(S_abc) = R_abc

\* C38: an outbound metadata fetch is issued only for a URL that passed
\* isValidURL and the not-dangerous check in the same request. The step
\* that issues the fetch of a create or update fetches the normalized URL
\* of the request, which is valid and not reported dangerous, and whose
\* host is neither localhost nor in a private range; a create or update
\* that is answered 400, 404 or 409 has issued no fetch.
C38_FetchOnlyValidatedURL ==
  [][\A p \in Procs :
       /\ (rq[p].pc \in {"c_meta", "u_meta"} /\ rq'[p] # rq[p])
            => LET target == rq[p].url
               IN /\ target = normalizeURL(rq[p].req.url)
                  /\ isValidURL(target)
                  /\ ~isDangerousURL(target)
                  /\ ~PrivateHost(ParseURL(target).hostname)
       /\ (/\ rq[p].op \in {"create", "update"}
           /\ rq[p].pc \notin {"idle", "done", "f_list"}
           /\ rq'[p].pc \in {"done", "f_list"}
           /\ rq'[p].inner.status \in {400, 404, 409})
            => rq[p].remote = ""]_vars

\* ------------------------------------------ a worker without API_SECRET
\* requests that carry no credential at all, on every gated route and on
\* the redirect path, and one with a guessed bearer token
OpenSpecRequests ==
  GatedRoutes
    \cup {ApiCreate(U_example, S_abc), ApiCreate(U_bare, <<>>),
          Get(<<"/">> \o S_abc, <<"Mozilla">>),
          WithCred(ApiDelete(S_abc),
                   [cookie |-> NoCookie, auth |-> <<"Bearer", "guess">>])}

OpenInit == InitOf({""}, BOOLEAN, BOOLEAN, {FALSE})

OpenNext ==
  \/ \E request \in OpenSpecRequests : Receive(1, request, MaxRequests)
  \/ Step(1)

OpenSpec == OpenInit /\ [][OpenNext]_vars

\* C39: with the secret empty or unset, cookie authentication is bypassed:
\* isAuthenticated is true for every request, and a request to an admin
\* HTML route or to an /admin/urls API route is never answered 401 or
\* sent to the login page, whatever it carries: the API request goes on
\* to the rate limiter and its handler, the HTML request to its handler.
\* So records are created, updated and deleted by requests without any
\* credential.
C39_EmptySecretOpensAdmin ==
  [][\A p \in Procs :
       (/\ API_SECRET = ""
        /\ rq[p].pc = "idle" /\ rq'[p].pc # "idle"
        /\ HtmlRoute(rq'[p].req) \/ ApiRoute(rq'[p].req))
         => /\ isAuthenticated(rq'[p].req, API_SECRET, now)
            /\ ~Refused(rq'[p])
            /\ ApiRoute(rq'[p].req)
                 => rq'[p].pc = "rl_get" /\ rq'[p].purpose = "admin"
            /\ rq'[p].pc = "done" => rq'[p].inner.status \in {400, 500}]_vars

\* a DELETE /admin/urls/abc without cookie or Authorization header has
\* been answered 200 and the record of abc, stored before, is gone
C39_Witness ==
  /\ API_SECRET = ""
  /\ rq[1].pc = "done"
  /\ rq[1].req = ApiDelete(S_abc)
  /\ ~rq[1].req.cookie.present /\ rq[1].req.auth = <<>>
  /\ rq[1].inner.status = 200
  /\ getURL(S_abc) = NoRecord
  /\ processed[ClientIP] > 0

====
